---- MODULE Spec2Model ----
(***************************************************************************)
(* Setup orchestration of the SAP-on-Azure automation tool:                *)
(*   - WorkflowManager.run_full_setup        (variant "full")              *)
(*   - SetupScreen.run_setup, the TUI worker (variant "tui")               *)
(*   - main() of sdaf_github_actions.py      (variant "script")            *)
(*   - WorkflowManager.wait_for_environment called on its own with an      *)
(*     arbitrary timeout / check interval    (variant "wait")              *)
(* External collaborators (az CLI, GitHub API) answer nondeterministically.*)
(***************************************************************************)
EXTENDS Integers, Sequences, FiniteSets, TLC

\* ------------------------------------------------------------------ bounds
MaxTimeout == 30
MaxInterval == 10
MaxEnvs == 2
MaxRuns == 2
MaxWorkers == 2
MaxCodeLen == 8
MaxRepoLen == 4

\* ------------------------------------------------------- program constants
DefaultTimeout == 180
DefaultInterval == 10
HttpNoContent == 204
EnvironmentMaxLength == 5
VnetMaxLength == 7

\* ------------------------------------------------------------ input domains
Variants == {"full", "tui", "script", "wait"}

\* environment names are strings, modelled as sequences of characters
EnvMG == <<"M", "G">>
EnvMG1 == <<"M", "G", "1">>
EnvDV == <<"D", "V">>
EnvNames == {EnvMG, EnvMG1, EnvDV}
Prefixes == {<<"M", "G">>, <<"D">>}
NoName == <<>>

\* listings returned by the environments endpoint: ordered, without repeats
RECURSIVE SeqsUpTo(_, _)
SeqsUpTo(S, n) ==
    IF n = 0 THEN {<<>>}
    ELSE LET shorter == SeqsUpTo(S, n - 1)
         IN shorter \cup {Append(s, x) : s \in {t \in shorter : Len(t) = n - 1}, x \in S}

NoRepeat(s) == \A i, j \in 1..Len(s) : i # j => s[i] # s[j]

Listings == {s \in SeqsUpTo(EnvNames, MaxEnvs) : NoRepeat(s)}

HttpStatuses == {HttpNoContent, 200, 404, 422}

\* outcome of one az CLI child process: exit 0, non-zero exit, subprocess.run raised
CliRc == {"ok", "nonzero", "raise"}
\* ... and, where the output is decoded: unparseable JSON, a missing key
CliJson == CliRc \cup {"badjson", "nokey"}
\* outcome of one GitHub API call through PyGithub: accepted, GithubException,
\* an exception of another class (transport error)
ApiOutcome == {"ok", "rejected", "raise"}

\* ------------------------------------------------------------ pure helpers
\* str.startswith
StartsWith(s, p) == Len(p) <= Len(s) /\ SubSeq(s, 1, Len(p)) = p

\* [x for x in s if Test(x)]  (Test is StartsWith(x, p))
RECURSIVE FilterPrefix(_, _)
FilterPrefix(s, p) ==
    IF s = <<>> THEN <<>>
    ELSE IF StartsWith(Head(s), p)
         THEN <<Head(s)>> \o FilterPrefix(Tail(s), p)
         ELSE FilterPrefix(Tail(s), p)

CeilDiv(a, b) == (a + b - 1) \div b

VARIABLES
    variant,        \* which driver runs
    pc,             \* position of the driver
    step,           \* pipeline step whose code is executing
    outcome,        \* how the run ended ("running" while it has not)
    environment,    \* config["environment"]: the prefix looked for
    s_username,     \* config s_username ("" when not provided)
    s_password,     \* config s_password
    tenant_id,      \* config tenant_id ("" when the prompt was left empty)
    use_mi,         \* script: use_managed_identity (auth_choice == "2")
    az_present,     \* the az executable is on the PATH
    timeout,        \* wait_for_environment: timeout
    check_interval, \* wait_for_environment: check_interval
    elapsed,        \* wait_for_environment: elapsed
    environments,   \* wait_for_environment: last listing
    polls,          \* number of get_environments calls of the current wait
    sleeps,         \* number of time.sleep calls of the current wait
    wait_ret,       \* what wait_for_environment returned
    list_failed,    \* some listing of the current wait was answered with an error
    calls,          \* log of the external calls made, in order
    results,        \* run_full_setup: the results dictionary
    task_status,    \* SetupScreen.task_status
    spn_data,       \* the identity record held by the driver
    env_name,       \* the driver's environment_name
    batch,          \* publisher: the secrets being published, in dict order
    idx,            \* publisher: position of the next pair of the batch
    success,        \* publisher: the success flag
    pub_ret,        \* what the publisher returned
    r_impl,         \* role step: which implementation of the step runs
    r_run,          \* role step: 1 or 2, the run of the step in progress
    r_pc,           \* role step: position inside the step
    r_holds,        \* role step: the principal holds User Access Administrator
    r_calls,        \* role step: log of the az role-assignment calls
    screen_stack,   \* TUI: the app's stack of screens, top last
    setup_mounted,  \* TUI: a SetupScreen instance is mounted
    keep_installed, \* TUI: the framework keeps the screen named in SCREENS mounted when popped
    workers,        \* TUI: per run_setup worker thread, the task it executes
    config,         \* ConfigManager.config
    credentials,    \* ConfigManager.credentials
    config_file,    \* the document config.json on disk
    credentials_file, \* the document credentials.json on disk
    cm_last,        \* the last operation on the ConfigManager, with the key and value it stored
    v_field,        \* input: the form field / prompt the value is entered in
    v_source,       \* input: "tui" (a ValidatedInput) or "script" (an input() loop)
    v_input,        \* input: the string entered, a sequence of characters
    v_state,        \* input: "entered", "accepted" or "rejected"
    v_value,        \* input: the value handed on to the configuration
    p_mode,         \* script provisioning: "new", "existing" or "mi"
    p_rotate,       \* script provisioning: generate_new_secret was answered with yes
    p_pc,           \* script provisioning: position in get_user_input / main
    p_calls,        \* script provisioning: log of the az calls, in order
    p_secret,       \* script provisioning: where spn_password comes from
    p_record,       \* script provisioning: what the provisioning function returned
    p_roles,        \* script provisioning: roleAssignments of the identity record
    p_out,          \* script provisioning: how this part of main ended
    f_validated     \* TUI forms: the values that passed validation at the last Continue

\* variables of the specifications that stand beside the pipeline
roleVars == <<r_impl, r_run, r_pc, r_holds, r_calls>>
screenVars == <<screen_stack, setup_mounted, keep_installed, workers>>
configVars == <<config, credentials, config_file, credentials_file, cm_last>>
inputVars == <<v_field, v_source, v_input, v_state, v_value>>
provVars == <<p_mode, p_rotate, p_pc, p_calls, p_secret, p_record, p_roles, p_out>>
formVars == <<f_validated>>
sideVars == <<roleVars, screenVars, configVars, inputVars, provVars, formVars>>

waitVars == <<timeout, check_interval, elapsed, environments, polls, sleeps, wait_ret,
              list_failed>>
pubVars == <<batch, idx, success, pub_ret>>
cfgVars == <<variant, environment, s_username, s_password, tenant_id, use_mi, az_present>>

pipeVars == <<variant, pc, step, outcome, environment, s_username, s_password,
              tenant_id, use_mi, az_present, timeout, check_interval, elapsed, environments, polls, sleeps,
              wait_ret, list_failed, calls, results, task_status, spn_data, env_name,
              batch, idx, success, pub_ret>>

vars == <<pipeVars, sideVars>>

\* one logged external call
Call(st, op, env, key, res, status) ==
    [step |-> st, op |-> op, env |-> env, key |-> key, res |-> res, status |-> status]

WaitPending == [kind |-> "pending", name |-> NoName]
WaitNone == [kind |-> "none", name |-> NoName]
WaitRaised == [kind |-> "raised", name |-> NoName]
WaitName(n) == [kind |-> "name", name |-> n]

\* --------------------------------------------- GitHubManager.get_environments
\* o: outcome of get_repo / repo.get_environments; l: the listing the API returns
get_environments(o, l) == IF o = "ok" THEN l ELSE <<>>

\* ----------------------------------------- WorkflowManager.wait_for_environment
\* the loop test 'while elapsed < timeout'
Mut_WaitLoopTest == elapsed <= timeout
WaitLoopTest == elapsed < timeout

\* 'return matching_envs[0]'
Mut_FirstMatch(matching) == matching[Len(matching)]
FirstMatch(matching) == matching[1]

\* one loop iteration up to the match test: list, filter, return on a match
WaitPoll ==
    /\ pc = "wait_poll"
    /\ WaitLoopTest
    /\ \E o \in ApiOutcome, l \in Listings :
         LET envs == get_environments(o, l)
             matching == FilterPrefix(envs, environment)
         IN /\ polls' = polls + 1
            /\ list_failed' = (list_failed \/ o # "ok")
            /\ IF o = "raise"
               THEN /\ wait_ret' = WaitRaised
                    /\ pc' = "after_wait"
                    /\ UNCHANGED environments
               ELSE /\ environments' = envs
                    /\ IF matching # <<>>
                       THEN /\ wait_ret' = WaitName(FirstMatch(matching))
                            /\ pc' = "after_wait"
                       ELSE /\ wait_ret' = wait_ret
                            /\ pc' = "wait_sleep"
    /\ UNCHANGED <<cfgVars, sideVars, step, outcome, timeout, check_interval, elapsed, sleeps,
                   calls, results, task_status, spn_data, env_name, pubVars>>

\* the rest of the iteration: time.sleep(check_interval); elapsed += check_interval
WaitSleep ==
    /\ pc = "wait_sleep"
    /\ sleeps' = sleeps + 1
    /\ elapsed' = elapsed + check_interval
    /\ pc' = "wait_poll"
    /\ UNCHANGED <<cfgVars, sideVars, step, outcome, timeout, check_interval, environments, polls,
                   wait_ret, list_failed, calls, results, task_status, spn_data, env_name, pubVars>>

\* loop exit: 'return None'
WaitTimeout ==
    /\ pc = "wait_poll"
    /\ ~WaitLoopTest
    /\ wait_ret' = WaitNone
    /\ pc' = "after_wait"
    /\ UNCHANGED <<cfgVars, sideVars, step, outcome, timeout, check_interval, elapsed, environments,
                   polls, sleeps, list_failed, calls, results, task_status, spn_data, env_name, pubVars>>

\* ------------------------------------------------------------- AzureManager
Az(op, res) == [op |-> op, res |-> res]

NoSpn == [none |-> TRUE, appId |-> "", password |-> "", has_password |-> FALSE, object_id |-> ""]
\* the decoded create-for-rbac output plus object_id; c = "nopassword": no 'password' key
NewSpn(c) == [none |-> FALSE, appId |-> "app-1",
              password |-> IF c = "ok" THEN "secret-1" ELSE "",
              has_password |-> (c = "ok"), object_id |-> "obj-1"]

\* the outcomes an az child process can have: without the executable
\* subprocess.run raises FileNotFoundError
Cli(S) == IF az_present THEN S ELSE {"raise"}

\* v: outcome of 'az account show'
validate_login(v) == v = "ok"

\* l: outcome of 'az login'
login(l) == l = "ok"

\* v: the login check; c: create-for-rbac; s: 'az ad sp show'
create_service_principal(v, c, s) ==
    IF ~validate_login(v)
    THEN [log |-> <<Az("account_show", v)>>, spn |-> NoSpn]
    ELSE IF c \notin {"ok", "nopassword"}
    THEN [log |-> <<Az("account_show", v), Az("create_for_rbac", c)>>, spn |-> NoSpn]
    ELSE IF s # "ok"
    THEN [log |-> <<Az("account_show", v), Az("create_for_rbac", c), Az("sp_show", s)>>,
          spn |-> NoSpn]
    ELSE [log |-> <<Az("account_show", v), Az("create_for_rbac", c), Az("sp_show", s)>>,
          spn |-> NewSpn(c)]

\* v: the login check; r: 'az role assignment create'
assign_role(v, r) ==
    IF ~validate_login(v)
    THEN [log |-> <<Az("account_show", v)>>, ok |-> FALSE]
    ELSE [log |-> <<Az("account_show", v), Az("role_assignment_create", r)>>, ok |-> (r = "ok")]

\* v: the login check; f: 'az ad app federated-credential create'
configure_federated_identity(v, f) ==
    IF ~validate_login(v)
    THEN [log |-> <<Az("account_show", v)>>, ok |-> FALSE]
    ELSE [log |-> <<Az("account_show", v), Az("federated_credential_create", f)>>,
          ok |-> (f = "ok")]

create_service_principal_workflow(v1, l, v2, c, s, v3, r) ==
    IF ~validate_login(v1) /\ ~login(l)
    THEN [log |-> <<Az("account_show", v1), Az("login", l)>>, spn |-> NoSpn, role |-> FALSE]
    ELSE LET pre == IF validate_login(v1) THEN <<Az("account_show", v1)>>
                    ELSE <<Az("account_show", v1), Az("login", l)>>
             sp == create_service_principal(v2, c, s)
         IN IF sp.spn.none
            THEN [log |-> pre \o sp.log, spn |-> NoSpn, role |-> FALSE]
            ELSE LET ar == assign_role(v3, r)
                 IN [log |-> pre \o sp.log \o ar.log, spn |-> sp.spn, role |-> ar.ok]

\* the az calls of an operation, as entries of the call log of step st
Mut_AzCalls(st, log, env) ==
    [i \in 1..Len(log) |-> Call(st, log[i].op, env, "", log[i].res, 0)]
    \o [i \in 1..Len(log) |-> Call(st, log[i].op, env, "", log[i].res, 0)]
AzCalls(st, log, env) ==
    [i \in 1..Len(log) |-> Call(st, log[i].op, env, "", log[i].res, 0)]

\* ------------------------------------------------------------ GitHubManager
Pair(n, v) == [name |-> n, value |-> v]

\* trigger_workflow: raised: requests.post raised; status: response.status_code
trigger_workflow(raised, status) == ~raised /\ status = HttpNoContent

DispatchCall(st, raised, status) ==
    Call(st, "dispatch", NoName, "", IF raised THEN "raise" ELSE "sent", IF raised THEN 0 ELSE status)

\* what 'except GithubException' around one create_secret does with the flag
Mut_AfterKey(flag, o) == flag
AfterKey(flag, o) == IF o = "rejected" THEN FALSE ELSE flag

\* add_repository_secrets up to the loop: get_repository
GmRepoResolve ==
    /\ pc = "gm_repo"
    /\ \E o \in ApiOutcome :
         /\ calls' = Append(calls, Call(step, "get_repo", NoName, "", o, 0))
         /\ IF o = "ok"
            THEN /\ success' = TRUE
                 /\ idx' = 1
                 /\ pc' = "gm_repo_loop"
                 /\ UNCHANGED pub_ret
            ELSE /\ pub_ret' = "false"
                 /\ pc' = "after_pub"
                 /\ UNCHANGED <<success, idx>>
    /\ UNCHANGED <<cfgVars, sideVars, step, outcome, waitVars, results, task_status, spn_data,
                   env_name, batch>>

\* add_repository_secrets: one iteration of the loop over secrets.items()
GmRepoKey ==
    /\ pc = "gm_repo_loop"
    /\ idx <= Len(batch)
    /\ \E o \in ApiOutcome :
         /\ calls' = Append(calls, Call(step, "create_secret", NoName, batch[idx].name, o, 0))
         /\ idx' = idx + 1
         /\ IF o = "raise"
            THEN /\ pub_ret' = "false"
                 /\ pc' = "after_pub"
                 /\ UNCHANGED success
            ELSE /\ success' = AfterKey(success, o)
                 /\ UNCHANGED <<pub_ret, pc>>
    /\ UNCHANGED <<cfgVars, sideVars, step, outcome, waitVars, results, task_status, spn_data,
                   env_name, batch>>

\* add_repository_secrets: 'return success'
GmRepoReturn ==
    /\ pc = "gm_repo_loop"
    /\ idx > Len(batch)
    /\ pub_ret' = IF success THEN "true" ELSE "false"
    /\ pc' = "after_pub"
    /\ UNCHANGED <<cfgVars, sideVars, step, outcome, waitVars, calls, results, task_status, spn_data,
                   env_name, batch, idx, success>>

\* does add_environment_secrets enter the loop: r: get_repo, e: get_environment
Mut_EnvResolved(r, e) == r = "ok"
EnvResolved(r, e) == r = "ok" /\ e = "ok"

\* add_environment_secrets up to the loop: get_repository, repo.get_environment
GmEnvResolve ==
    /\ pc = "gm_env"
    /\ \E r \in ApiOutcome, e \in ApiOutcome :
         /\ calls' = calls \o
                IF r = "ok"
                THEN <<Call(step, "get_repo", NoName, "", r, 0),
                       Call(step, "get_environment", env_name, "", e, 0)>>
                ELSE <<Call(step, "get_repo", NoName, "", r, 0)>>
         /\ IF EnvResolved(r, e)
            THEN /\ success' = TRUE
                 /\ idx' = 1
                 /\ pc' = "gm_env_loop"
                 /\ UNCHANGED pub_ret
            ELSE /\ pub_ret' = "false"
                 /\ pc' = "after_pub"
                 /\ UNCHANGED <<success, idx>>
    /\ UNCHANGED <<cfgVars, sideVars, step, outcome, waitVars, results, task_status, spn_data,
                   env_name, batch>>

\* add_environment_secrets: one iteration of the loop over secrets.items()
GmEnvKey ==
    /\ pc = "gm_env_loop"
    /\ idx <= Len(batch)
    /\ \E o \in ApiOutcome :
         /\ calls' = Append(calls, Call(step, "create_env_secret", env_name, batch[idx].name, o, 0))
         /\ idx' = idx + 1
         /\ IF o = "raise"
            THEN /\ pub_ret' = "false"
                 /\ pc' = "after_pub"
                 /\ UNCHANGED success
            ELSE /\ success' = AfterKey(success, o)
                 /\ UNCHANGED <<pub_ret, pc>>
    /\ UNCHANGED <<cfgVars, sideVars, step, outcome, waitVars, results, task_status, spn_data,
                   env_name, batch>>

\* add_environment_secrets: 'return success'
GmEnvReturn ==
    /\ pc = "gm_env_loop"
    /\ idx > Len(batch)
    /\ pub_ret' = IF success THEN "true" ELSE "false"
    /\ pc' = "after_pub"
    /\ UNCHANGED <<cfgVars, sideVars, step, outcome, waitVars, calls, results, task_status, spn_data,
                   env_name, batch, idx, success>>

\* ----------------------------------------------------------- WorkflowManager
\* setup_github_app: the secrets dictionary
GithubAppSecrets == <<Pair("APPLICATION_ID", "app-id"), Pair("APPLICATION_PRIVATE_KEY", "pem")>>

\* setup_environment_secrets: the secrets dictionary
EnvironmentSecrets(spn, tenant, user, pass) ==
    <<Pair("AZURE_CLIENT_ID", spn.appId), Pair("AZURE_CLIENT_SECRET", spn.password),
      Pair("AZURE_OBJECT_ID", spn.object_id), Pair("AZURE_SUBSCRIPTION_ID", "sub-1"),
      Pair("AZURE_TENANT_ID", tenant)>>
    \o (IF user # "" /\ pass # ""
        THEN <<Pair("S_USERNAME", user), Pair("S_PASSWORD", pass)>>
        ELSE <<>>)

\* the drivers' call setup_environment_secrets(repo, environment_name, spn_data, ...):
\* spn_data["password"] raises KeyError when the key is missing, otherwise the
\* batch is handed to add_environment_secrets together with environment_name
Mut_SetupEnvironmentSecrets(name) ==
    /\ env_name' = environment
    /\ IF ~spn_data.has_password
       THEN /\ outcome' = "raised"
            /\ pc' = "done"
            /\ UNCHANGED <<step, batch>>
       ELSE /\ step' = "environment_secrets"
            /\ batch' = EnvironmentSecrets(spn_data, tenant_id, s_username, s_password)
            /\ pc' = "gm_env"
            /\ UNCHANGED outcome
SetupEnvironmentSecrets(name) ==
    /\ env_name' = name
    /\ IF ~spn_data.has_password
       THEN /\ outcome' = "raised"
            /\ pc' = "done"
            /\ UNCHANGED <<step, batch>>
       ELSE /\ step' = "environment_secrets"
            /\ batch' = EnvironmentSecrets(spn_data, tenant_id, s_username, s_password)
            /\ pc' = "gm_env"
            /\ UNCHANGED outcome

\* -------------------------------------------- WorkflowManager.run_full_setup
InitialResults ==
    [github_app_setup |-> FALSE, azure_login |-> FALSE, spn_creation |-> FALSE,
     environment_creation |-> FALSE, environment_name |-> NoName,
     environment_secrets |-> FALSE, federated_identity |-> FALSE]

\* the 'all([...])' of the last statement
Mut_overall_success(r) ==
    /\ r.github_app_setup
    /\ r.azure_login
    /\ r.spn_creation
    /\ r.environment_creation
    /\ r.environment_name # NoName
    /\ r.environment_secrets
overall_success(r) ==
    /\ r.github_app_setup
    /\ r.azure_login
    /\ r.spn_creation
    /\ r.environment_creation
    /\ r.environment_name # NoName
    /\ r.environment_secrets
    /\ r.federated_identity

\* 'return False, results'
ReturnFalse ==
    /\ outcome' = "returned_false"
    /\ pc' = "done"

\* results = {...}; the call of setup_github_app
F_GithubApp ==
    /\ variant = "full"
    /\ pc = "start"
    /\ step' = "github_app_setup"
    /\ batch' = GithubAppSecrets
    /\ pc' = "gm_repo"
    /\ UNCHANGED <<cfgVars, sideVars, outcome, waitVars, calls, results, task_status, spn_data,
                   env_name, idx, success, pub_ret>>

\* results["github_app_setup"] = ...; if not ...: return False, results
Mut_F_AfterGithubApp ==
    /\ variant = "full"
    /\ pc = "after_pub"
    /\ step = "github_app_setup"
    /\ results' = [results EXCEPT !.github_app_setup = (pub_ret = "true")]
    /\ pc' = "f_azure_login"
    /\ UNCHANGED <<cfgVars, sideVars, step, outcome, waitVars, calls, task_status, spn_data, env_name, pubVars>>
F_AfterGithubApp ==
    /\ variant = "full"
    /\ pc = "after_pub"
    /\ step = "github_app_setup"
    /\ results' = [results EXCEPT !.github_app_setup = (pub_ret = "true")]
    /\ IF pub_ret # "true"
       THEN ReturnFalse
       ELSE /\ pc' = "f_azure_login"
            /\ UNCHANGED outcome
    /\ UNCHANGED <<cfgVars, sideVars, step, waitVars, calls, task_status, spn_data, env_name, pubVars>>

\* validate_login, then login when the check failed
F_AzureLogin ==
    /\ variant = "full"
    /\ pc = "f_azure_login"
    /\ step' = "azure_login"
    /\ \E v \in Cli(CliRc), l \in Cli(CliRc) :
         LET ok == validate_login(v) \/ login(l)
             log == IF validate_login(v) THEN <<Az("account_show", v)>>
                    ELSE <<Az("account_show", v), Az("login", l)>>
         IN /\ calls' = calls \o AzCalls("azure_login", log, NoName)
            /\ results' = [results EXCEPT !.azure_login = ok]
            /\ IF ~ok
               THEN ReturnFalse
               ELSE /\ pc' = "f_spn"
                    /\ UNCHANGED outcome
    /\ UNCHANGED <<cfgVars, sideVars, waitVars, task_status, spn_data, env_name, pubVars>>

\* create_service_principal_workflow and the test of its two results
F_Spn ==
    /\ variant = "full"
    /\ pc = "f_spn"
    /\ step' = "spn_creation"
    /\ \E v1 \in Cli(CliRc), l \in Cli(CliRc), v2 \in Cli(CliRc),
          c \in Cli(CliJson \cup {"nopassword"}), s \in Cli(CliJson), v3 \in Cli(CliRc),
          r \in Cli(CliRc) :
         LET w == create_service_principal_workflow(v1, l, v2, c, s, v3, r)
             ok == ~w.spn.none /\ w.role
         IN /\ calls' = calls \o AzCalls("spn_creation", w.log, NoName)
            /\ spn_data' = w.spn
            /\ results' = [results EXCEPT !.spn_creation = ok]
            /\ IF ~ok
               THEN ReturnFalse
               ELSE /\ pc' = "f_create_env"
                    /\ UNCHANGED outcome
    /\ UNCHANGED <<cfgVars, sideVars, waitVars, task_status, env_name, pubVars>>

\* create_environment (the dispatch), then the call of wait_for_environment
F_CreateEnv ==
    /\ variant = "full"
    /\ pc = "f_create_env"
    /\ step' = "environment_creation"
    /\ \E raised \in BOOLEAN, status \in HttpStatuses :
         LET ok == trigger_workflow(raised, status)
         IN /\ calls' = Append(calls, DispatchCall("environment_creation", raised, status))
            /\ results' = [results EXCEPT !.environment_creation = ok]
            /\ IF ~ok
               THEN ReturnFalse
               ELSE /\ pc' = "wait_poll"
                    /\ UNCHANGED outcome
    /\ UNCHANGED <<cfgVars, sideVars, waitVars, task_status, spn_data, env_name, pubVars>>

\* the wait has returned: if not environment_name: return False, results;
\* results["environment_name"] = ...; the call of setup_environment_secrets
F_AfterWait ==
    /\ variant = "full"
    /\ pc = "after_wait"
    /\ elapsed' = 0
    /\ environments' = <<>>
    /\ polls' = 0
    /\ sleeps' = 0
    /\ list_failed' = FALSE
    /\ IF wait_ret.kind = "raised"
       THEN /\ outcome' = "raised"
            /\ pc' = "done"
            /\ UNCHANGED <<results, env_name, step, batch>>
       ELSE IF wait_ret.kind = "none"
       THEN /\ ReturnFalse
            /\ UNCHANGED <<results, env_name, step, batch>>
       ELSE /\ results' = [results EXCEPT !.environment_name = wait_ret.name]
            /\ SetupEnvironmentSecrets(wait_ret.name)
    /\ UNCHANGED <<cfgVars, sideVars, timeout, check_interval, wait_ret, calls, task_status, spn_data,
                   idx, success, pub_ret>>

\* results["environment_secrets"] = ...; if not ...: return False, results
Mut_F_AfterEnvSecrets ==
    /\ variant = "full"
    /\ pc = "after_pub"
    /\ step = "environment_secrets"
    /\ results' = [results EXCEPT !.environment_secrets = (pub_ret = "true")]
    /\ pc' = "f_federated"
    /\ UNCHANGED <<cfgVars, sideVars, step, outcome, waitVars, calls, task_status, spn_data, env_name, pubVars>>
F_AfterEnvSecrets ==
    /\ variant = "full"
    /\ pc = "after_pub"
    /\ step = "environment_secrets"
    /\ results' = [results EXCEPT !.environment_secrets = (pub_ret = "true")]
    /\ IF pub_ret # "true"
       THEN ReturnFalse
       ELSE /\ pc' = "f_federated"
            /\ UNCHANGED outcome
    /\ UNCHANGED <<cfgVars, sideVars, step, waitVars, calls, task_status, spn_data, env_name, pubVars>>

\* setup_federated_identity; overall_success; return
F_Federated ==
    /\ variant = "full"
    /\ pc = "f_federated"
    /\ step' = "federated_identity"
    /\ \E v \in Cli(CliRc), f \in Cli(CliRc) :
         LET fc == configure_federated_identity(v, f)
             res == [results EXCEPT !.federated_identity = fc.ok]
         IN /\ calls' = calls \o AzCalls("federated_identity", fc.log, env_name)
            /\ results' = res
            /\ outcome' = IF overall_success(res) THEN "returned_true" ELSE "returned_false"
            /\ pc' = "done"
    /\ UNCHANGED <<cfgVars, sideVars, waitVars, task_status, spn_data, env_name, pubVars>>

\* ------------------------------------------------------------- SetupScreen
setup_tasks == <<"setup_github_app", "login_azure", "create_service_principal",
                 "create_environment", "setup_environment_secrets",
                 "configure_federated_identity">>

SetupTasks == {setup_tasks[i] : i \in 1..Len(setup_tasks)}

InitialTaskStatus == [t \in SetupTasks |-> "pending"]

\* update_task: self.task_status[task] = status
update_task(ts, task, status) == [ts EXCEPT ![task] = status]

\* the error branch of a task: update_task(task, "error"); show_setup_error; return
T_Error(task) ==
    /\ task_status' = update_task(task_status, task, "error")
    /\ outcome' = "error_shown"
    /\ pc' = "done"

\* the success branch of a task followed by update_task(next, "running")
Mut_T_Advance(task, next, to) ==
    /\ task_status' = update_task(task_status, task, "success")
    /\ pc' = to
    /\ UNCHANGED outcome
T_Advance(task, next, to) ==
    /\ task_status' = update_task(update_task(task_status, task, "success"), next, "running")
    /\ pc' = to
    /\ UNCHANGED outcome

\* update_task("setup_github_app", "running"); the call of setup_github_app
T_GithubApp ==
    /\ variant = "tui"
    /\ pc = "start"
    /\ task_status' = update_task(task_status, "setup_github_app", "running")
    /\ step' = "github_app_setup"
    /\ batch' = GithubAppSecrets
    /\ pc' = "gm_repo"
    /\ UNCHANGED <<cfgVars, sideVars, outcome, waitVars, calls, results, spn_data, env_name,
                   idx, success, pub_ret>>

\* if github_success: ... else: ...
T_AfterGithubApp ==
    /\ variant = "tui"
    /\ pc = "after_pub"
    /\ step = "github_app_setup"
    /\ IF pub_ret = "true"
       THEN T_Advance("setup_github_app", "login_azure", "t_azure_login")
       ELSE T_Error("setup_github_app")
    /\ UNCHANGED <<cfgVars, sideVars, step, waitVars, calls, results, spn_data, env_name, pubVars>>

\* validate_login, login when the check failed, and the test of azure_login
T_AzureLogin ==
    /\ variant = "tui"
    /\ pc = "t_azure_login"
    /\ step' = "azure_login"
    /\ \E v \in Cli(CliRc), l \in Cli(CliRc) :
         LET ok == validate_login(v) \/ login(l)
             log == IF validate_login(v) THEN <<Az("account_show", v)>>
                    ELSE <<Az("account_show", v), Az("login", l)>>
         IN /\ calls' = calls \o AzCalls("azure_login", log, NoName)
            /\ IF ok
               THEN T_Advance("login_azure", "create_service_principal", "t_spn")
               ELSE T_Error("login_azure")
    /\ UNCHANGED <<cfgVars, sideVars, waitVars, results, spn_data, env_name, pubVars>>

\* create_service_principal_workflow and 'if spn_data and role_success'
T_Spn ==
    /\ variant = "tui"
    /\ pc = "t_spn"
    /\ step' = "spn_creation"
    /\ \E v1 \in Cli(CliRc), l \in Cli(CliRc), v2 \in Cli(CliRc),
          c \in Cli(CliJson \cup {"nopassword"}), s \in Cli(CliJson), v3 \in Cli(CliRc),
          r \in Cli(CliRc) :
         LET w == create_service_principal_workflow(v1, l, v2, c, s, v3, r)
         IN /\ calls' = calls \o AzCalls("spn_creation", w.log, NoName)
            /\ spn_data' = w.spn
            /\ IF ~w.spn.none /\ w.role
               THEN T_Advance("create_service_principal", "create_environment", "t_create_env")
               ELSE T_Error("create_service_principal")
    /\ UNCHANGED <<cfgVars, sideVars, waitVars, results, env_name, pubVars>>

\* create_environment (the dispatch); on success the call of wait_for_environment
T_CreateEnv ==
    /\ variant = "tui"
    /\ pc = "t_create_env"
    /\ step' = "environment_creation"
    /\ \E raised \in BOOLEAN, status \in HttpStatuses :
         /\ calls' = Append(calls, DispatchCall("environment_creation", raised, status))
         /\ IF trigger_workflow(raised, status)
            THEN /\ pc' = "wait_poll"
                 /\ UNCHANGED <<task_status, outcome>>
            ELSE T_Error("create_environment")
    /\ UNCHANGED <<cfgVars, sideVars, waitVars, results, spn_data, env_name, pubVars>>

\* the wait has returned: 'if environment_name: ... else: ...', then
\* update_task("setup_environment_secrets", "running") and the call of
\* setup_environment_secrets
T_AfterWait ==
    /\ variant = "tui"
    /\ pc = "after_wait"
    /\ elapsed' = 0
    /\ environments' = <<>>
    /\ polls' = 0
    /\ sleeps' = 0
    /\ list_failed' = FALSE
    /\ IF wait_ret.kind = "raised"
       THEN /\ outcome' = "raised"
            /\ pc' = "done"
            /\ UNCHANGED <<task_status, env_name, step, batch>>
       ELSE IF wait_ret.kind = "none"
       THEN /\ T_Error("create_environment")
            /\ UNCHANGED <<env_name, step, batch>>
       ELSE /\ task_status' = update_task(update_task(task_status, "create_environment", "success"),
                                          "setup_environment_secrets", "running")
            /\ SetupEnvironmentSecrets(wait_ret.name)
    /\ UNCHANGED <<cfgVars, sideVars, timeout, check_interval, wait_ret, calls, results, spn_data,
                   idx, success, pub_ret>>

\* if secrets_success: ... else: ...
T_AfterEnvSecrets ==
    /\ variant = "tui"
    /\ pc = "after_pub"
    /\ step = "environment_secrets"
    /\ IF pub_ret = "true"
       THEN T_Advance("setup_environment_secrets", "configure_federated_identity", "t_federated")
       ELSE T_Error("setup_environment_secrets")
    /\ UNCHANGED <<cfgVars, sideVars, step, waitVars, calls, results, spn_data, env_name, pubVars>>

\* setup_federated_identity; if federated_success: ... show_setup_complete
T_Federated ==
    /\ variant = "tui"
    /\ pc = "t_federated"
    /\ step' = "federated_identity"
    /\ \E v \in Cli(CliRc), f \in Cli(CliRc) :
         LET fc == configure_federated_identity(v, f)
         IN /\ calls' = calls \o AzCalls("federated_identity", fc.log, env_name)
            /\ IF fc.ok
               THEN /\ task_status' = update_task(task_status, "configure_federated_identity", "success")
                    /\ outcome' = "completed"
                    /\ pc' = "done"
               ELSE T_Error("configure_federated_identity")
    /\ UNCHANGED <<cfgVars, sideVars, waitVars, results, spn_data, env_name, pubVars>>

\* ----------------------------------------------- sdaf_github_actions.py: main
\* an exception nothing catches: the process ends with a traceback
Crash ==
    /\ outcome' = "raised"
    /\ pc' = "done"

\* generate_repository_secrets
generate_repository_secrets == <<Pair("APPLICATION_ID", "app-id"), Pair("APPLICATION_PRIVATE_KEY", "pem")>>

\* main: environment_variables
ScriptEnvironmentVariables(spn, tenant, user, mi) ==
    <<Pair("AZURE_SUBSCRIPTION_ID", "sub-1"), Pair("AZURE_TENANT_ID", tenant),
      Pair("USE_MSI", IF mi THEN "true" ELSE "false"),
      Pair("S_USERNAME", IF user # "" THEN user ELSE "Add SAP S Username here"),
      Pair("AZURE_CLIENT_ID", spn.appId), Pair("AZURE_OBJECT_ID", spn.object_id)>>

\* main: environment_secrets
ScriptEnvironmentSecrets(spn, pass, mi) ==
    (IF mi THEN <<>> ELSE <<Pair("AZURE_CLIENT_SECRET", spn.password)>>)
    \o <<Pair("S_PASSWORD", IF pass # "" THEN pass ELSE "Add SAP S Password here")>>

\* the publishers' test 'secret_value is None or secret_value == ""'
SkipValue(v) == v = ""

\* verify_azure_login: v: outcome of 'az account show --query name'
verify_azure_login(v) == v = "ok"

\* sys.exit(1) / exit(1)
Exit ==
    /\ outcome' = "exited"
    /\ pc' = "done"

\* check_prerequisites: shutil.which("az"), 'az --version', verify_azure_login
\* and, when not logged in, the question whether to continue (go)
S_Prerequisites ==
    /\ variant = "script"
    /\ pc = "start"
    /\ step' = "prerequisites"
    /\ IF ~az_present
       THEN /\ Exit
            /\ UNCHANGED calls
       ELSE \E ver \in {"ok", "nonzero"}, v \in CliRc, go \in BOOLEAN :
              IF ver # "ok"
              THEN /\ calls' = Append(calls, Call("prerequisites", "version", NoName, "", ver, 0))
                   /\ Exit
              ELSE /\ calls' = calls \o <<Call("prerequisites", "version", NoName, "", ver, 0),
                                          Call("prerequisites", "account_show", NoName, "", v, 0)>>
                   /\ IF verify_azure_login(v) \/ go
                      THEN /\ pc' = "s_provision"
                           /\ UNCHANGED outcome
                      ELSE Exit
    /\ UNCHANGED <<cfgVars, sideVars, waitVars, results, task_status, spn_data, env_name, pubVars>>

\* main up to 'Generating GitHub secrets': identity provisioning, summarised by
\* its result (an identity record, or None and exit(1)); pw: the client secret,
\* which is the typed one ("" allowed) when an existing principal is reused
S_Provision ==
    /\ variant = "script"
    /\ pc = "s_provision"
    /\ step' = "spn_creation"
    /\ \E ok \in BOOLEAN, pw \in {"secret-1", ""} :
         /\ calls' = Append(calls, Call("spn_creation", "provision", NoName, "",
                                        IF ok THEN "ok" ELSE "nonzero", 0))
         /\ IF ok
            THEN /\ spn_data' = [none |-> FALSE, appId |-> "app-1",
                                 password |-> IF use_mi THEN "" ELSE pw,
                                 has_password |-> ~use_mi, object_id |-> "obj-1"]
                 /\ pc' = "s_repo"
                 /\ UNCHANGED outcome
            ELSE /\ outcome' = "exited"
                 /\ pc' = "done"
                 /\ UNCHANGED spn_data
    /\ UNCHANGED <<cfgVars, sideVars, waitVars, results, task_status, env_name, pubVars>>

\* repo = github_client.get_repo(...); the call of add_repository_secrets
S_RepoSecrets ==
    /\ variant = "script"
    /\ pc = "s_repo"
    /\ step' = "github_app_setup"
    /\ \E o \in ApiOutcome :
         /\ calls' = Append(calls, Call("github_app_setup", "get_repo", NoName, "", o, 0))
         /\ IF o = "ok"
            THEN /\ batch' = generate_repository_secrets
                 /\ pc' = "sc_repo"
                 /\ UNCHANGED outcome
            ELSE /\ Crash
                 /\ UNCHANGED batch
    /\ UNCHANGED <<cfgVars, sideVars, waitVars, results, task_status, spn_data, env_name,
                   idx, success, pub_ret>>

\* add_repository_secrets (script): github_client.get_repo
ScRepoResolve ==
    /\ pc = "sc_repo"
    /\ \E o \in ApiOutcome :
         /\ calls' = Append(calls, Call(step, "get_repo", NoName, "", o, 0))
         /\ IF o = "ok"
            THEN /\ idx' = 1
                 /\ pc' = "sc_repo_loop"
                 /\ UNCHANGED outcome
            ELSE /\ Crash
                 /\ UNCHANGED idx
    /\ UNCHANGED <<cfgVars, sideVars, step, waitVars, results, task_status, spn_data, env_name,
                   batch, success, pub_ret>>

\* add_repository_secrets (script): one iteration; nothing catches a failure
ScRepoKey ==
    /\ pc = "sc_repo_loop"
    /\ idx <= Len(batch)
    /\ \E o \in ApiOutcome :
         /\ calls' = Append(calls, Call(step, "create_secret", NoName, batch[idx].name, o, 0))
         /\ idx' = idx + 1
         /\ IF o = "ok"
            THEN UNCHANGED <<pc, outcome>>
            ELSE Crash
    /\ UNCHANGED <<cfgVars, sideVars, step, waitVars, results, task_status, spn_data, env_name,
                   batch, success, pub_ret>>

\* add_repository_secrets (script): the end of the loop
ScRepoReturn ==
    /\ pc = "sc_repo_loop"
    /\ idx > Len(batch)
    /\ pc' = "after_pub"
    /\ UNCHANGED <<cfgVars, sideVars, step, outcome, waitVars, calls, results, task_status, spn_data,
                   env_name, pubVars>>

\* trigger_github_workflow: requests.post, the status test; nothing is returned
S_Dispatch ==
    /\ variant = "script"
    /\ pc = "after_pub"
    /\ step = "github_app_setup"
    /\ step' = "environment_creation"
    /\ \E raised \in BOOLEAN, status \in HttpStatuses :
         /\ calls' = Append(calls, DispatchCall("environment_creation", raised, status))
         /\ IF raised
            THEN Crash
            ELSE /\ pc' = "s_input"
                 /\ UNCHANGED outcome
    /\ UNCHANGED <<cfgVars, sideVars, waitVars, results, task_status, spn_data, env_name, pubVars>>

\* environment_name = input(...).strip(); the call of add_environment_variables
S_InputEnvName ==
    /\ variant = "script"
    /\ pc = "s_input"
    /\ \E n \in EnvNames \cup {NoName} : env_name' = n
    /\ step' = "environment_variables"
    /\ batch' = ScriptEnvironmentVariables(spn_data, tenant_id, s_username, use_mi)
    /\ pc' = "sc_env"
    /\ UNCHANGED <<cfgVars, sideVars, outcome, waitVars, calls, results, task_status, spn_data,
                   idx, success, pub_ret>>

\* add_environment_secrets / add_environment_variables (script):
\* github_client.get_repo and repo.get_environment, outside any try
ScEnvResolve ==
    /\ pc = "sc_env"
    /\ \E r \in ApiOutcome, e \in ApiOutcome :
         /\ calls' = calls \o
                IF r = "ok"
                THEN <<Call(step, "get_repo", NoName, "", r, 0),
                       Call(step, "get_environment", env_name, "", e, 0)>>
                ELSE <<Call(step, "get_repo", NoName, "", r, 0)>>
         /\ IF r = "ok" /\ e = "ok"
            THEN /\ idx' = 1
                 /\ pc' = "sc_env_loop"
                 /\ UNCHANGED outcome
            ELSE /\ Crash
                 /\ UNCHANGED idx
    /\ UNCHANGED <<cfgVars, sideVars, step, waitVars, results, task_status, spn_data, env_name,
                   batch, success, pub_ret>>

\* add_environment_secrets / add_environment_variables (script): one iteration;
\* an empty value is skipped, an exception of any class is caught and printed
ScEnvKey ==
    /\ pc = "sc_env_loop"
    /\ idx <= Len(batch)
    /\ idx' = idx + 1
    /\ IF SkipValue(batch[idx].value)
       THEN UNCHANGED calls
       ELSE \E o \in {"ok", "rejected"} :
              calls' = Append(calls,
                         Call(step, IF step = "environment_variables" THEN "create_env_variable"
                                    ELSE "create_env_secret",
                              env_name, batch[idx].name, o, 0))
    /\ UNCHANGED <<cfgVars, sideVars, pc, step, outcome, waitVars, results, task_status, spn_data,
                   env_name, batch, success, pub_ret>>

\* add_environment_secrets / add_environment_variables (script): the end of the loop
ScEnvReturn ==
    /\ pc = "sc_env_loop"
    /\ idx > Len(batch)
    /\ pc' = "after_pub"
    /\ UNCHANGED <<cfgVars, sideVars, step, outcome, waitVars, calls, results, task_status, spn_data,
                   env_name, pubVars>>

\* 'if environment_secrets:' (never empty: S_PASSWORD is always set) and the
\* call of add_environment_secrets
S_AfterVariables ==
    /\ variant = "script"
    /\ pc = "after_pub"
    /\ step = "environment_variables"
    /\ step' = "environment_secrets"
    /\ batch' = ScriptEnvironmentSecrets(spn_data, s_password, use_mi)
    /\ pc' = "sc_env"
    /\ UNCHANGED <<cfgVars, sideVars, outcome, waitVars, calls, results, task_status, spn_data,
                   env_name, idx, success, pub_ret>>

\* 'if not use_managed_identity: configure_federated_identity(...)' and the end
\* of main; f: the outcome of run_az_command, a failure is only printed
S_Federated ==
    /\ variant = "script"
    /\ pc = "after_pub"
    /\ step = "environment_secrets"
    /\ step' = "federated_identity"
    /\ IF use_mi
       THEN /\ outcome' = "completed"
            /\ pc' = "done"
            /\ UNCHANGED calls
       ELSE \E f \in Cli(CliRc) :
              /\ calls' = Append(calls, Call("federated_identity", "federated_credential_create",
                                             env_name, "", f, 0))
              /\ IF f = "raise"
                 THEN Crash
                 ELSE /\ outcome' = "completed"
                      /\ pc' = "done"
    /\ UNCHANGED <<cfgVars, sideVars, waitVars, results, task_status, spn_data, env_name, pubVars>>

\* --------------------------------- the User Access Administrator role step
\* the step as run twice in a row against one principal:
\*   "existing": create_azure_service_principal with use_existing_spn
\*   "new":      create_azure_service_principal creating the principal
\*   "manager":  AzureManager.assign_role (create_service_principal_workflow)
RoleImpls == {"existing", "new", "manager"}

\* one logged az call of the role step; held: the principal holds the role
\* when the call is made
RoleCall(run, op, res, held) == [run |-> run, op |-> op, res |-> res, held |-> held]

\* 'roles = json.loads(check_result.stdout); role_exists = len(roles) > 0'
\* o: outcome of 'az role assignment list'; held: what the listing shows
role_exists(o, held) == o = "ok" /\ held

\* the branch 'if not role_exists:' is reached and taken
CreateAfterList(o, held) == o = "ok" /\ ~role_exists(o, held)

\* what a role-assignment create call leaves in Azure
AfterCreate(held, r) == held \/ r = "ok"

\* existing principal: the role-assignment list query and the test of its result
R_ExistingList ==
    /\ r_impl = "existing"
    /\ r_pc = "start"
    /\ \E o \in {"ok", "nonzero", "raise", "badjson"} :
         /\ r_calls' = Append(r_calls, RoleCall(r_run, "role_assignment_list", o, r_holds))
         /\ r_pc' = IF CreateAfterList(o, r_holds) THEN "create" ELSE "end"
    /\ UNCHANGED <<pipeVars, provVars, formVars, screenVars, configVars, inputVars, r_impl, r_run, r_holds>>

\* existing principal: 'if not role_exists:' the role-assignment create call
R_ExistingCreate ==
    /\ r_impl = "existing"
    /\ r_pc = "create"
    /\ \E r \in CliRc :
         /\ r_calls' = Append(r_calls, RoleCall(r_run, "role_assignment_create", r, r_holds))
         /\ r_holds' = AfterCreate(r_holds, r)
    /\ r_pc' = "end"
    /\ UNCHANGED <<pipeVars, provVars, formVars, screenVars, configVars, inputVars, r_impl, r_run>>

\* new principal: the role-assignment create call that follows 'az ad sp show'
R_NewCreate ==
    /\ r_impl = "new"
    /\ r_pc = "start"
    /\ \E r \in CliRc :
         /\ r_calls' = Append(r_calls, RoleCall(r_run, "role_assignment_create", r, r_holds))
         /\ r_holds' = AfterCreate(r_holds, r)
    /\ r_pc' = "end"
    /\ UNCHANGED <<pipeVars, provVars, formVars, screenVars, configVars, inputVars, r_impl, r_run>>

\* AzureManager.assign_role: validate_login, then the role-assignment create call
R_ManagerAssign ==
    /\ r_impl = "manager"
    /\ r_pc = "start"
    /\ \E v \in CliRc, r \in CliRc :
         LET ar == assign_role(v, r)
         IN /\ r_calls' = r_calls \o
                  [i \in 1..Len(ar.log) |-> RoleCall(r_run, ar.log[i].op, ar.log[i].res, r_holds)]
            /\ r_holds' = IF validate_login(v) THEN AfterCreate(r_holds, r) ELSE r_holds
    /\ r_pc' = "end"
    /\ UNCHANGED <<pipeVars, provVars, formVars, screenVars, configVars, inputVars, r_impl, r_run>>

\* the step is run again against the same principal
R_Again ==
    /\ r_pc = "end"
    /\ r_run < MaxRuns
    /\ r_run' = r_run + 1
    /\ r_pc' = "start"
    /\ UNCHANGED <<pipeVars, provVars, formVars, screenVars, configVars, inputVars, r_impl, r_holds, r_calls>>

\* ------------------------------------------- the TUI's screens and workers
WorkerIds == 1..MaxWorkers

\* a worker that has not been started / has returned from run_setup
NotStarted == 0
Returned == Len(setup_tasks) + 1

Running(w) == workers[w] \in 1..Len(setup_tasks)

\* app.push_screen(name)
push_screen(stack, name) == Append(stack, name)

\* app.pop_screen()
pop_screen(stack) == SubSeq(stack, 1, Len(stack) - 1)

Top(stack) == stack[Len(stack)]

\* ReviewScreen.on_button_pressed, "setup-button": push_screen("setup"); a
\* SetupScreen that is not mounted is mounted, and SetupScreen.on_mount calls
\* run_setup, which starts a worker thread
U_PressSetup ==
    /\ Top(screen_stack) = "review"
    /\ screen_stack' = push_screen(screen_stack, "setup")
    /\ setup_mounted' = TRUE
    /\ IF setup_mounted
       THEN UNCHANGED workers
       ELSE \E w \in WorkerIds :
              /\ workers[w] = NotStarted
              /\ \A v \in WorkerIds : v < w => workers[v] # NotStarted
              /\ workers' = [workers EXCEPT ![w] = 1]
    /\ UNCHANGED <<pipeVars, provVars, formVars, roleVars, configVars, inputVars, keep_installed>>

\* SetupScreen.on_button_pressed, "cancel-button" / "back-button":
\* pop_screen(); nothing stops or joins the worker
U_PressCancel ==
    /\ Top(screen_stack) = "setup"
    /\ screen_stack' = pop_screen(screen_stack)
    /\ setup_mounted' = keep_installed
    /\ UNCHANGED <<pipeVars, provVars, formVars, roleVars, configVars, inputVars, keep_installed, workers>>

\* one task of run_setup in worker w: it succeeds and the next task starts,
\* or it is the last task or fails and run_setup returns
W_Task(w) ==
    /\ Running(w)
    /\ \E ok \in BOOLEAN :
         workers' = [workers EXCEPT ![w] = IF ok THEN workers[w] + 1 ELSE Returned]
    /\ UNCHANGED <<pipeVars, provVars, formVars, roleVars, configVars, inputVars, screen_stack, setup_mounted, keep_installed>>

ScreensIdle ==
    /\ screen_stack = <<"review">>
    /\ setup_mounted = FALSE
    /\ keep_installed = TRUE
    /\ workers = [w \in WorkerIds |-> NotStarted]

\* ------------------------------------------------------------ ConfigManager
\* the default configuration and credentials of __init__
DefaultConfig ==
    [k \in {"server_url", "environment", "vnet_name", "region_map", "subscription_id",
            "tenant_id", "spn_name"} |-> IF k = "server_url" THEN "https://github.com" ELSE ""]

DefaultCredentials ==
    [k \in {"github_token", "github_app_id", "github_app_name", "github_private_key",
            "repository_name", "owner", "azure_client_id", "azure_client_secret",
            "azure_object_id", "s_username", "s_password"} |-> ""]

\* dict.update: the keys of n are set in m
DictUpdate(m, n) ==
    [k \in (DOMAIN m) \cup (DOMAIN n) |-> IF k \in DOMAIN n THEN n[k] ELSE m[k]]

\* a document on disk: no file, a file json.load cannot decode, or an object
NoFile == [kind |-> "missing", data |-> <<>>]
Undecodable == [kind |-> "undecodable", data |-> <<>>]
Document(m) == [kind |-> "object", data |-> m]

\* load_config / load_credentials: m updated with the object of the file, when
\* the file exists and decodes
load(m, file) == IF file.kind = "object" THEN DictUpdate(m, file.data) ELSE m

\* save_config / save_credentials: io = "ok": the mapping is dumped; "open":
\* open(..., "w") raised IOError; "write": the write raised IOError after the
\* file was truncated; the error is printed
save(m, file, io) ==
    IF io = "ok" THEN Document(m)
    ELSE IF io = "open" THEN file
    ELSE Undecodable

SaveOutcomes == {"ok", "open", "write"}

\* the single-key updates the forms make: key and value
ConfigUpdates == {<<"environment", "MGMT">>, <<"environment", "">>, <<"repository_name", "o/r">>}
CredentialUpdates == {<<"github_token", "tok">>, <<"s_password", "spass">>, <<"s_password", "">>}

\* the documents a directory can hold when the ConfigManager is created
InitialConfigFiles ==
    {NoFile, Undecodable, Document(DefaultConfig),
     Document([k \in {"environment"} |-> "PROD"])}
InitialCredentialFiles ==
    {NoFile, Document(DefaultCredentials), Document([k \in {"github_token"} |-> "old"]),
     Document([k \in {"github_token", "note"} |-> "old"])}

\* the operation last made, for the properties
Op(name, key, value) == [op |-> name, key |-> key, value |-> value]

\* update_config(new_config)
CM_UpdateConfig ==
    /\ \E u \in ConfigUpdates, io \in SaveOutcomes :
         LET updated == DictUpdate(config, [k \in {u[1]} |-> u[2]])
         IN /\ config' = updated
            /\ config_file' = save(updated, config_file, io)
            /\ cm_last' = Op("update_config", u[1], u[2])
    /\ UNCHANGED <<pipeVars, provVars, formVars, roleVars, screenVars, inputVars, credentials, credentials_file>>

\* update_credentials(new_credentials)
CM_UpdateCredentials ==
    /\ \E u \in CredentialUpdates, io \in SaveOutcomes :
         LET updated == DictUpdate(credentials, [k \in {u[1]} |-> u[2]])
         IN /\ credentials' = updated
            /\ credentials_file' = save(updated, credentials_file, io)
            /\ cm_last' = Op("update_credentials", u[1], u[2])
    /\ UNCHANGED <<pipeVars, provVars, formVars, roleVars, screenVars, inputVars, config, config_file>>

\* clear_credentials()
Mut_CM_ClearCredentials ==
    /\ \E io \in SaveOutcomes :
         LET cleared == DefaultCredentials
         IN /\ credentials' = cleared
            /\ credentials_file' = save(cleared, credentials_file, io)
            /\ cm_last' = Op("clear_credentials", "", "")
    /\ UNCHANGED <<pipeVars, provVars, formVars, roleVars, screenVars, inputVars, config, config_file>>
CM_ClearCredentials ==
    /\ \E io \in SaveOutcomes :
         LET cleared == [k \in DOMAIN credentials |-> ""]
         IN /\ credentials' = cleared
            /\ credentials_file' = save(cleared, credentials_file, io)
            /\ cm_last' = Op("clear_credentials", "", "")
    /\ UNCHANGED <<pipeVars, provVars, formVars, roleVars, screenVars, inputVars, config, config_file>>

\* ConfigManager(config_dir) created again on the same directory
CM_New ==
    /\ config' = load(DefaultConfig, config_file)
    /\ credentials' = load(DefaultCredentials, credentials_file)
    /\ cm_last' = Op("new", "", "")
    /\ UNCHANGED <<pipeVars, provVars, formVars, roleVars, screenVars, inputVars, config_file, credentials_file>>

\* get_combined_data: combined = config.copy(); combined.update(credentials)
get_combined_data(cfg, cred) == DictUpdate(cfg, cred)

\* SAPAzureAutomatorApp.update_config: credentials_keys
credentials_keys == {"github_token", "github_app_id", "github_app_name", "github_private_key",
                     "s_username", "s_password"}

\* the single-key updates made through the application
AppUpdates == {<<"repository_name", "o/r">>, <<"environment", "DEV">>, <<"github_token", "tok2">>}

\* SAPAzureAutomatorApp.update_config({k: v}): the update is split by
\* credentials_keys and handed to update_config or update_credentials
App_update_config ==
    /\ \E u \in AppUpdates, io \in SaveOutcomes :
         /\ IF u[1] \in credentials_keys
            THEN LET updated == DictUpdate(credentials, [k \in {u[1]} |-> u[2]])
                 IN /\ credentials' = updated
                    /\ credentials_file' = save(updated, credentials_file, io)
                    /\ UNCHANGED <<config, config_file>>
            ELSE LET updated == DictUpdate(config, [k \in {u[1]} |-> u[2]])
                 IN /\ config' = updated
                    /\ config_file' = save(updated, config_file, io)
                    /\ UNCHANGED <<credentials, credentials_file>>
         /\ cm_last' = Op("app_update_config", u[1], u[2])
    /\ UNCHANGED <<pipeVars, provVars, formVars, roleVars, screenVars, inputVars>>
ConfigIdle ==
    /\ config = DefaultConfig
    /\ credentials = DefaultCredentials
    /\ config_file = NoFile
    /\ credentials_file = NoFile
    /\ cm_last = Op("new", "", "")

\* ------------------------------------------- validators and prompt loops
\* characters: a letter, a dot, the slash, a blank and the line feed
Alnum == {"A"}
RepoChars == {"A", "."}
Whitespace == {" ", "\n"}

\* the strings entered for a code (environment, VNet) and for a repository name
CodeInputs == SeqsUpTo({"A", " "}, MaxCodeLen)
RepoInputs == SeqsUpTo({"A", ".", "/", "\n"}, MaxRepoLen)

\* the validators return an error message, or None
None == "None"

\* str.strip()
RECURSIVE LStrip(_)
LStrip(v) == IF v # <<>> /\ Head(v) \in Whitespace THEN LStrip(Tail(v)) ELSE v
RECURSIVE RStrip(_)
RStrip(v) ==
    IF v # <<>> /\ v[Len(v)] \in Whitespace THEN RStrip(SubSeq(v, 1, Len(v) - 1)) ELSE v
strip(v) == RStrip(LStrip(v))

\* str.isalnum()
isalnum(v) == v # <<>> /\ \A i \in 1..Len(v) : v[i] \in Alnum

validate_not_empty(v) ==
    IF v = <<>> \/ strip(v) = <<>> THEN "This field cannot be empty" ELSE None

Mut_validate_environment_code(v) ==
    IF v = <<>> THEN "Environment code cannot be empty"
    ELSE IF Len(v) > VnetMaxLength THEN "Environment code must be at most 5 characters"
    ELSE IF ~isalnum(v) THEN "Environment code should only contain letters and numbers"
    ELSE None
validate_environment_code(v) ==
    IF v = <<>> THEN "Environment code cannot be empty"
    ELSE IF Len(v) > EnvironmentMaxLength THEN "Environment code must be at most 5 characters"
    ELSE IF ~isalnum(v) THEN "Environment code should only contain letters and numbers"
    ELSE None

validate_vnet_name(v) ==
    IF v = <<>> THEN "VNet name cannot be empty"
    ELSE IF Len(v) > VnetMaxLength THEN "VNet name must be at most 7 characters"
    ELSE IF ~isalnum(v) THEN "VNet name should only contain letters and numbers"
    ELSE None

\* the whole of v is [A-Za-z0-9_.-]+/[A-Za-z0-9_.-]+
SegmentsMatch(v) ==
    \E i \in 2..(Len(v) - 1) :
       /\ v[i] = "/"
       /\ \A j \in 1..Len(v) : j # i => v[j] \in RepoChars

\* re.match(r"^[A-Za-z0-9_.-]+/[A-Za-z0-9_.-]+$", v): '$' matches at the end
\* of the string and also just before a line feed that ends the string
re_match(v) ==
    \/ SegmentsMatch(v)
    \/ /\ v # <<>>
       /\ v[Len(v)] = "\n"
       /\ SegmentsMatch(SubSeq(v, 1, Len(v) - 1))

validate_repo_name(v) ==
    IF v = <<>> THEN "Repository name cannot be empty"
    ELSE IF ~re_match(v) THEN "Repository name must be in the format 'owner/repo'"
    ELSE None

\* the positions of the four dashes of the pattern
Dashes == {9, 14, 19, 24}

\* the whole of v is [0-9a-f]{8}-[0-9a-f]{4}-[0-9a-f]{4}-[0-9a-f]{4}-[0-9a-f]{12};
\* a digit, a lower-case and an upper-case letter stand for the characters
\* [0-9a-f] under re.IGNORECASE
GuidMatch(v) ==
    /\ Len(v) = 36
    /\ \A i \in 1..36 : IF i \in Dashes THEN v[i] = "-" ELSE v[i] \in {"0", "a", "F"}

\* re.match(pattern, v, re.IGNORECASE) with the pattern anchored by ^ and $
re_match_guid(v) ==
    \/ GuidMatch(v)
    \/ /\ Len(v) = 37
       /\ v[37] = "\n"
       /\ GuidMatch(SubSeq(v, 1, 36))

validate_subscription_id(v) ==
    IF v = <<>> THEN "Subscription ID cannot be empty"
    ELSE IF ~re_match_guid(v) THEN "Subscription ID must be in GUID format"
    ELSE None

validate_tenant_id(v) ==
    IF v = <<>> THEN "Tenant ID cannot be empty"
    ELSE IF ~re_match_guid(v) THEN "Tenant ID must be in GUID format"
    ELSE None

\* ValidatedInput.validate: the first error among the validators, "" when none
validation_error(field, v) ==
    IF validate_not_empty(v) # None THEN validate_not_empty(v)
    ELSE LET e == CASE field = "environment" -> validate_environment_code(v)
                    [] field = "vnet_name" -> validate_vnet_name(v)
                    [] field = "subscription_id" -> validate_subscription_id(v)
                    [] field = "tenant_id" -> validate_tenant_id(v)
                    [] OTHER -> validate_repo_name(v)
         IN IF e # None THEN e ELSE ""

\* the length the prompt loop of get_user_input compares against
PromptLimit(field) == IF field = "environment" THEN EnvironmentMaxLength ELSE VnetMaxLength

FieldInputs(field) == IF field = "repository_name" THEN RepoInputs ELSE CodeInputs

\* the form's Continue button: validate(); when valid the value is saved
V_Continue ==
    /\ v_source = "tui"
    /\ v_state = "entered"
    /\ IF validation_error(v_field, v_input) = ""
       THEN /\ v_state' = "accepted"
            /\ v_value' = v_input
       ELSE /\ v_state' = "rejected"
            /\ UNCHANGED v_value
    /\ UNCHANGED <<pipeVars, provVars, formVars, roleVars, screenVars, configVars, v_field, v_source, v_input>>

\* one round of a prompt loop: input(...).strip() and the length test
V_Prompt ==
    /\ v_source = "script"
    /\ v_state = "entered"
    /\ IF Len(strip(v_input)) <= PromptLimit(v_field)
       THEN /\ v_state' = "accepted"
            /\ v_value' = strip(v_input)
       ELSE /\ v_state' = "rejected"
            /\ UNCHANGED v_value
    /\ UNCHANGED <<pipeVars, provVars, formVars, roleVars, screenVars, configVars, v_field, v_source, v_input>>

\* after a rejection another value is entered (the loop prompts again, the
\* form stays open)
V_EnterAgain ==
    /\ v_state = "rejected"
    /\ v_input' \in FieldInputs(v_field)
    /\ v_state' = "entered"
    /\ UNCHANGED <<pipeVars, provVars, formVars, roleVars, screenVars, configVars, v_field, v_source, v_value>>

InputIdle ==
    /\ v_field = "none"
    /\ v_source = "none"
    /\ v_input = <<>>
    /\ v_state = "accepted"
    /\ v_value = <<>>

\* ------------------------- sdaf_github_actions.py: provisioning of the identity
\* the roles create_user_assigned_identity assigns, in list order
roles == <<"Contributor", "Role Based Access Control Administrator",
           "Storage Blob Data Owner", "Key Vault Administrator",
           "App Configuration Data Owner">>

ProvModes == {"new", "existing", "mi"}

\* exit(1)
P_Exit ==
    /\ p_out' = "exited"
    /\ p_pc' = "end"

\* an exception nothing catches
P_Crash ==
    /\ p_out' = "raised"
    /\ p_pc' = "end"

\* 'if not spn_data: ... exit(1)' / 'if not identity_data: ... exit(1)' of main
\* and, with a record, the way on to 'Generating GitHub secrets'
P_Return(record) ==
    /\ p_record' = record
    /\ p_out' = IF record = "none" THEN "exited" ELSE "continues"
    /\ p_pc' = "end"

\* get_user_input: the two credential resets, the exit test and the decoding
\* of the output of the reset that was made last
\* a: 'az ad app credential reset'; s: 'az ad sp credential reset'
Mut_P_Rotate ==
    /\ p_pc = "rotate"
    /\ \E a \in CliJson, s \in CliJson :
         LET fallback == a # "ok"
             last == IF fallback THEN s ELSE a
         IN /\ fallback \/ s = "ok"
            /\ p_calls' = p_calls \o
                   IF fallback
                   THEN <<Az("app_credential_reset", a), Az("sp_credential_reset", s)>>
                   ELSE <<Az("app_credential_reset", a)>>
            /\ IF last = "raise"
               THEN /\ P_Crash
                    /\ UNCHANGED p_secret
               ELSE IF last # "ok"
               THEN /\ P_Exit
                    /\ UNCHANGED p_secret
               ELSE /\ p_secret' = IF fallback THEN "sp" ELSE "app"
                    /\ p_pc' = "lookup"
                    /\ UNCHANGED p_out
    /\ UNCHANGED <<pipeVars, formVars, roleVars, screenVars, configVars, inputVars,
                   p_mode, p_rotate, p_record, p_roles>>
P_Rotate ==
    /\ p_pc = "rotate"
    /\ \E a \in CliJson, s \in CliJson :
         LET fallback == a = "nonzero"
             last == IF fallback THEN s ELSE a
         IN /\ fallback \/ s = "ok"
            /\ p_calls' = p_calls \o
                   IF fallback
                   THEN <<Az("app_credential_reset", a), Az("sp_credential_reset", s)>>
                   ELSE <<Az("app_credential_reset", a)>>
            /\ IF last = "raise"
               THEN /\ P_Crash
                    /\ UNCHANGED p_secret
               ELSE IF last # "ok"
               THEN /\ P_Exit
                    /\ UNCHANGED p_secret
               ELSE /\ p_secret' = IF fallback THEN "sp" ELSE "app"
                    /\ p_pc' = "lookup"
                    /\ UNCHANGED p_out
    /\ UNCHANGED <<pipeVars, formVars, roleVars, screenVars, configVars, inputVars,
                   p_mode, p_rotate, p_record, p_roles>>

\* get_user_input: 'az ad sp show' for the object ID of the existing principal
P_ExistingLookup ==
    /\ p_pc = "lookup"
    /\ \E s \in CliJson :
         /\ p_calls' = Append(p_calls, Az("sp_show", s))
         /\ IF s = "raise" THEN P_Crash
            ELSE IF s # "ok" THEN P_Exit
            ELSE /\ p_pc' = "existing_list"
                 /\ UNCHANGED p_out
    /\ UNCHANGED <<pipeVars, formVars, roleVars, screenVars, configVars, inputVars,
                   p_mode, p_rotate, p_secret, p_record, p_roles>>

\* create_azure_service_principal, existing principal: the role assignment
\* list; held: the listing is not empty
P_ExistingList ==
    /\ p_pc = "existing_list"
    /\ \E o \in CliRc \cup {"badjson"}, held \in BOOLEAN :
         /\ o = "ok" \/ ~held
         /\ p_calls' = Append(p_calls, Az("role_assignment_list", o))
         /\ IF o = "raise"
            THEN /\ P_Crash
                 /\ UNCHANGED p_record
            ELSE IF o = "nonzero"
            THEN P_Return("none")
            ELSE IF o = "badjson" \/ held
            THEN P_Return("record")
            ELSE /\ p_pc' = "existing_create"
                 /\ UNCHANGED <<p_out, p_record>>
    /\ UNCHANGED <<pipeVars, formVars, roleVars, screenVars, configVars, inputVars,
                   p_mode, p_rotate, p_secret, p_roles>>

\* create_azure_service_principal, existing principal: the role assignment
P_ExistingCreate ==
    /\ p_pc = "existing_create"
    /\ \E r \in CliRc :
         /\ p_calls' = Append(p_calls, Az("role_assignment_create", r))
         /\ IF r = "raise"
            THEN /\ P_Crash
                 /\ UNCHANGED p_record
            ELSE P_Return("record")
    /\ UNCHANGED <<pipeVars, formVars, roleVars, screenVars, configVars, inputVars,
                   p_mode, p_rotate, p_secret, p_roles>>

\* create_azure_service_principal, new principal: create-for-rbac and its decoding
P_NewCreate ==
    /\ p_pc = "new_create"
    /\ \E c \in CliJson :
         /\ p_calls' = Append(p_calls, Az("create_for_rbac", c))
         /\ IF c = "raise"
            THEN /\ P_Crash
                 /\ UNCHANGED <<p_record, p_secret>>
            ELSE IF c \in {"nonzero", "badjson"}
            THEN /\ P_Return("none")
                 /\ UNCHANGED p_secret
            ELSE /\ p_secret' = "created"
                 /\ p_pc' = "new_show"
                 /\ UNCHANGED <<p_out, p_record>>
    /\ UNCHANGED <<pipeVars, formVars, roleVars, screenVars, configVars, inputVars,
                   p_mode, p_rotate, p_roles>>

\* create_azure_service_principal, new principal: 'az ad sp show' with
\* spn_data["appId"] (KeyError when create-for-rbac gave no such key), the
\* decoding of its output and spn_show_data["id"]
P_NewShow ==
    /\ p_pc = "new_show"
    /\ IF p_calls[Len(p_calls)].res = "nokey"
       THEN /\ P_Crash
            /\ UNCHANGED <<p_calls, p_record>>
       ELSE \E s \in CliJson :
              /\ p_calls' = Append(p_calls, Az("sp_show", s))
              /\ IF s \in {"raise", "nokey"}
                 THEN /\ P_Crash
                      /\ UNCHANGED p_record
                 ELSE IF s # "ok"
                 THEN P_Return("none")
                 ELSE /\ p_pc' = "new_role"
                      /\ UNCHANGED <<p_out, p_record>>
    /\ UNCHANGED <<pipeVars, formVars, roleVars, screenVars, configVars, inputVars,
                   p_mode, p_rotate, p_secret, p_roles>>

\* create_azure_service_principal, new principal: the role assignment inside
\* try / except Exception; a failure is printed as a warning; return spn_data
P_NewRole ==
    /\ p_pc = "new_role"
    /\ \E r \in CliRc :
         /\ p_calls' = Append(p_calls, Az("role_assignment_create", r))
         /\ P_Return("record")
    /\ UNCHANGED <<pipeVars, formVars, roleVars, screenVars, configVars, inputVars,
                   p_mode, p_rotate, p_secret, p_roles>>

\* main, managed identity: verify_resource_group and 'az group create' when
\* the group does not exist; g: 'az group exists' (answer true, or not);
\* c: 'az group create'
P_MiResourceGroup ==
    /\ p_pc = "mi_group"
    /\ \E g \in CliRc, c \in CliRc :
         /\ g # "ok" \/ c = "ok"
         /\ p_calls' = p_calls \o
                IF g = "ok" THEN <<Az("group_exists", g)>>
                ELSE <<Az("group_exists", g), Az("group_create", c)>>
         /\ IF g = "ok" \/ c = "ok"
            THEN /\ p_pc' = "mi_verify"
                 /\ UNCHANGED p_out
            ELSE IF c = "raise" THEN P_Crash
            ELSE P_Exit
    /\ UNCHANGED <<pipeVars, formVars, roleVars, screenVars, configVars, inputVars,
                   p_mode, p_rotate, p_secret, p_record, p_roles>>

\* create_user_assigned_identity up to the creation: verify_azure_login,
\* verify_subscription, verify_resource_group; each returns False on any failure
P_MiVerify ==
    /\ p_pc = "mi_verify"
    /\ \E v \in CliRc, s \in CliRc, g \in CliRc :
         /\ v = "ok" \/ s = "ok"
         /\ (v = "ok" /\ s = "ok") \/ g = "ok"
         /\ p_calls' = p_calls \o
                IF ~verify_azure_login(v) THEN <<Az("account_show", v)>>
                ELSE IF s # "ok" THEN <<Az("account_show", v), Az("account_set", s)>>
                ELSE <<Az("account_show", v), Az("account_set", s), Az("group_exists", g)>>
         /\ IF verify_azure_login(v) /\ s = "ok" /\ g = "ok"
            THEN /\ p_pc' = "mi_create"
                 /\ UNCHANGED <<p_out, p_record>>
            ELSE P_Return("none")
    /\ UNCHANGED <<pipeVars, formVars, roleVars, screenVars, configVars, inputVars,
                   p_mode, p_rotate, p_secret, p_roles>>

\* create_user_assigned_identity: 'az identity create' and the decoding of its
\* output, inside try / except Exception
P_MiCreate ==
    /\ p_pc = "mi_create"
    /\ \E i \in CliJson :
         /\ p_calls' = Append(p_calls, Az("identity_create", i))
         /\ IF i = "ok"
            THEN /\ p_pc' = "mi_roles"
                 /\ UNCHANGED <<p_out, p_record>>
            ELSE P_Return("none")
    /\ UNCHANGED <<pipeVars, formVars, roleVars, screenVars, configVars, inputVars,
                   p_mode, p_rotate, p_secret, p_roles>>

\* the role_name of the next iteration of 'for role_name in roles'
NextRoleIndex == Len(SelectSeq(p_calls, LAMBDA c : c.op = "role_assignment_create")) + 1

\* create_user_assigned_identity: one iteration of the loop over roles, inside
\* the same try / except Exception
P_MiRole ==
    /\ p_pc = "mi_roles"
    /\ NextRoleIndex <= Len(roles)
    /\ \E r \in CliRc :
         /\ p_calls' = Append(p_calls, Az("role_assignment_create", r))
         /\ IF r = "ok"
            THEN /\ p_roles' = Append(p_roles, roles[NextRoleIndex])
                 /\ UNCHANGED <<p_pc, p_out, p_record>>
            ELSE IF r = "nonzero"
            THEN UNCHANGED <<p_roles, p_pc, p_out, p_record>>
            ELSE /\ P_Return("none")
                 /\ UNCHANGED p_roles
    /\ UNCHANGED <<pipeVars, formVars, roleVars, screenVars, configVars, inputVars,
                   p_mode, p_rotate, p_secret>>

\* create_user_assigned_identity: the end of the loop, 'return {...}'
P_MiReturn ==
    /\ p_pc = "mi_roles"
    /\ NextRoleIndex > Len(roles)
    /\ P_Return("record")
    /\ UNCHANGED <<pipeVars, formVars, roleVars, screenVars, configVars, inputVars,
                   p_mode, p_rotate, p_calls, p_secret, p_roles>>

\* ---------------------------------------------- tui.py: the form screens
\* strings are sequences of characters; a GUID made of the character c
Guid(c) == [i \in 1..36 |-> IF i \in Dashes THEN "-" ELSE c]

\* what the user can have typed when Continue is pressed
RepoFormInputs == {<<"A", "/", "A">>, <<"A", "/", ".">>, <<"A">>, <<"A", "/", "A", "\n">>}
EnvFormInputs == {<<"A">>, [i \in 1..EnvironmentMaxLength |-> "A"],
                  [i \in 1..(EnvironmentMaxLength + 1) |-> "A"]}
VnetFormInputs == {[i \in 1..VnetMaxLength |-> "A"], [i \in 1..(VnetMaxLength + 1) |-> "A"]}
SubscriptionFormInputs == {Guid("0"), Guid("F"), Guid("g"), SubSeq(Guid("0"), 1, 35), <<>>}
TenantFormInputs == {Guid("a"), Guid("a") \o <<"a">>}

\* the ConfigManager of a first start: the defaults of __init__; the other
\* inputs of the two forms hold one-character values that pass their validators
FormConfig == [k \in DOMAIN DefaultConfig |-> IF k = "server_url" THEN <<"h">> ELSE <<>>]
FormCredentials == [k \in DOMAIN DefaultCredentials |-> <<>>]

\* repo_input.value.split("/")[0] if "/" in repo_input.value else ""
RECURSIVE FirstSegment(_)
FirstSegment(v) ==
    IF v = <<>> \/ Head(v) = "/" THEN <<>> ELSE <<Head(v)>> \o FirstSegment(Tail(v))

owner(v) == IF \E i \in 1..Len(v) : v[i] = "/" THEN FirstSegment(v) ELSE <<>>

Restrict(m, keys) == [k \in keys |-> m[k]]

\* SAPAzureAutomatorApp.update_config(config_updates): the updates are split by
\* credentials_keys; each part that is not empty is stored and saved
AppStore(updates, io) ==
    LET cfg == Restrict(updates, DOMAIN updates \ credentials_keys)
        cred == Restrict(updates, DOMAIN updates \cap credentials_keys)
    IN /\ IF DOMAIN cfg # {}
          THEN /\ config' = DictUpdate(config, cfg)
               /\ config_file' = save(DictUpdate(config, cfg), config_file, io)
          ELSE UNCHANGED <<config, config_file>>
       /\ IF DOMAIN cred # {}
          THEN /\ credentials' = DictUpdate(credentials, cred)
               /\ credentials_file' = save(DictUpdate(credentials, cred), credentials_file, io)
          ELSE UNCHANGED <<credentials, credentials_file>>

\* save_github_config with the repository name repo
GithubUpdates(repo) ==
    [k \in {"github_token", "repository_name", "server_url", "github_app_name",
            "github_app_id", "github_private_key", "owner"} |->
        CASE k = "github_token" -> <<"t">>
          [] k = "repository_name" -> repo
          [] k = "server_url" -> <<"h">>
          [] k = "github_app_name" -> <<"n">>
          [] k = "github_app_id" -> <<"1">>
          [] k = "github_private_key" -> <<"k">>
          [] OTHER -> owner(repo)]

\* save_azure_config; the S-User box is not ticked
AzureUpdates(env, vnet, sub, tenant) ==
    [k \in {"environment", "vnet_name", "region_map", "subscription_id", "tenant_id",
            "spn_name", "s_username", "s_password"} |->
        CASE k = "environment" -> env
          [] k = "vnet_name" -> vnet
          [] k = "region_map" -> <<"r">>
          [] k = "subscription_id" -> sub
          [] k = "tenant_id" -> tenant
          [] k = "spn_name" -> <<"s">>
          [] OTHER -> <<>>]

\* GitHubConfigScreen.on_button_pressed, "continue-button": every input is
\* validated; save_github_config, which returns without saving when the
\* private key file cannot be read (readable); push_screen("azure-config")
G_Continue ==
    /\ Top(screen_stack) = "github-config"
    /\ \E repo \in RepoFormInputs, readable \in BOOLEAN, io \in {"ok", "open"} :
         /\ readable \/ io = "ok"
         /\ IF validation_error("repository_name", repo) # ""
            THEN UNCHANGED <<screen_stack, configVars, f_validated>>
            ELSE /\ f_validated' = [f_validated EXCEPT !.repository_name = repo]
                 /\ IF readable
                    THEN /\ AppStore(GithubUpdates(repo), io)
                         /\ cm_last' = Op("app_update_config", "repository_name", repo)
                    ELSE UNCHANGED configVars
                 /\ screen_stack' = push_screen(screen_stack, "azure-config")
    /\ UNCHANGED <<pipeVars, provVars, roleVars, inputVars, setup_mounted, keep_installed, workers>>

\* AzureConfigScreen.on_button_pressed, "continue-button": every input is
\* validated; save_azure_config; push_screen("review")
A_Continue ==
    /\ Top(screen_stack) = "azure-config"
    /\ \E env \in EnvFormInputs, vnet \in VnetFormInputs, sub \in SubscriptionFormInputs,
          tenant \in TenantFormInputs, io \in {"ok", "open"} :
         IF \E f \in {<<"environment", env>>, <<"vnet_name", vnet>>,
                      <<"subscription_id", sub>>, <<"tenant_id", tenant>>} :
                validation_error(f[1], f[2]) # ""
         THEN UNCHANGED <<screen_stack, configVars, f_validated>>
         ELSE /\ f_validated' = [f_validated EXCEPT !.environment = env, !.vnet_name = vnet,
                                                     !.subscription_id = sub,
                                                     !.tenant_id = tenant]
              /\ AppStore(AzureUpdates(env, vnet, sub, tenant), io)
              /\ cm_last' = Op("app_update_config", "environment", env)
              /\ screen_stack' = push_screen(screen_stack, "review")
    /\ UNCHANGED <<pipeVars, provVars, roleVars, inputVars, setup_mounted, keep_installed, workers>>

\* AzureConfigScreen / ReviewScreen, "back-button": pop_screen()
U_PressBack ==
    /\ Top(screen_stack) \in {"azure-config", "review"}
    /\ screen_stack' = pop_screen(screen_stack)
    /\ UNCHANGED <<pipeVars, provVars, formVars, roleVars, configVars, inputVars,
                   setup_mounted, keep_installed, workers>>

FormsIdle ==
    f_validated = [repository_name |-> <<>>, environment |-> <<>>, vnet_name |-> <<>>,
                   subscription_id |-> <<>>, tenant_id |-> <<>>]
ProvIdle ==
    /\ p_mode = "none"
    /\ p_rotate = FALSE
    /\ p_pc = "end"
    /\ p_calls = <<>>
    /\ p_secret = ""
    /\ p_record = "pending"
    /\ p_roles = <<>>
    /\ p_out = "running"
RoleIdle ==
    /\ r_impl = "none"
    /\ r_run = 1
    /\ r_pc = "end"
    /\ r_holds = FALSE
    /\ r_calls = <<>>

\* ----------------------------------------------------------------- initial
Init ==
    /\ FormsIdle
    /\ ProvIdle
    /\ variant \in Variants
    /\ environment \in (IF variant = "script" THEN {EnvMG} ELSE Prefixes)
    /\ use_mi \in (IF variant = "script" THEN BOOLEAN ELSE {FALSE})
    /\ tenant_id \in (IF variant \in {"script", "full"} THEN {"", "tenant-1"} ELSE {"tenant-1"})
    /\ az_present \in (IF variant = "wait" THEN {TRUE} ELSE BOOLEAN)
    /\ IF variant = "wait"
       THEN /\ timeout \in 1..MaxTimeout
            /\ check_interval \in 1..MaxInterval
            /\ s_username = ""
            /\ s_password = ""
            /\ pc = "wait_poll"
       ELSE /\ timeout = DefaultTimeout
            /\ check_interval = DefaultInterval
            /\ s_username \in (IF variant = "script"
                               THEN {IF tenant_id = "" THEN "" ELSE "suser"}
                               ELSE {"", "suser"})
            /\ s_password \in (IF variant = "script" THEN {IF s_username = "" THEN "" ELSE "spass"}
                               ELSE {"", "spass"})
            /\ pc = "start"
    /\ step = "none"
    /\ outcome = "running"
    /\ elapsed = 0
    /\ environments = <<>>
    /\ polls = 0
    /\ sleeps = 0
    /\ wait_ret = WaitPending
    /\ list_failed = FALSE
    /\ calls = <<>>
    /\ results = InitialResults
    /\ task_status = InitialTaskStatus
    /\ spn_data = NoSpn
    /\ env_name = NoName
    /\ batch = <<>>
    /\ idx = 1
    /\ success = TRUE
    /\ pub_ret = "none"
    /\ RoleIdle
    /\ ScreensIdle
    /\ ConfigIdle
    /\ InputIdle

Next ==
    \/ WaitPoll
    \/ WaitSleep
    \/ WaitTimeout
    \/ GmRepoResolve
    \/ GmRepoKey
    \/ GmRepoReturn
    \/ GmEnvResolve
    \/ GmEnvKey
    \/ GmEnvReturn
    \/ F_GithubApp
    \/ F_AfterGithubApp
    \/ F_AzureLogin
    \/ F_Spn
    \/ F_CreateEnv
    \/ F_AfterWait
    \/ F_AfterEnvSecrets
    \/ F_Federated
    \/ T_GithubApp
    \/ T_AfterGithubApp
    \/ T_AzureLogin
    \/ T_Spn
    \/ T_CreateEnv
    \/ T_AfterWait
    \/ T_AfterEnvSecrets
    \/ T_Federated
    \/ S_Prerequisites
    \/ S_Provision
    \/ S_RepoSecrets
    \/ ScRepoResolve
    \/ ScRepoKey
    \/ ScRepoReturn
    \/ S_Dispatch
    \/ S_InputEnvName
    \/ ScEnvResolve
    \/ ScEnvKey
    \/ ScEnvReturn
    \/ S_AfterVariables
    \/ S_Federated

Spec == Init /\ [][Next]_vars

\* the pipeline at rest, for the specifications that stand beside it
PipeIdle ==
    /\ variant = "none"
    /\ pc = "done"
    /\ step = "none"
    /\ outcome = "running"
    /\ environment = NoName
    /\ s_username = ""
    /\ s_password = ""
    /\ tenant_id = ""
    /\ use_mi = FALSE
    /\ az_present = TRUE
    /\ timeout = DefaultTimeout
    /\ check_interval = DefaultInterval
    /\ elapsed = 0
    /\ environments = <<>>
    /\ polls = 0
    /\ sleeps = 0
    /\ wait_ret = WaitPending
    /\ list_failed = FALSE
    /\ calls = <<>>
    /\ results = InitialResults
    /\ task_status = InitialTaskStatus
    /\ spn_data = NoSpn
    /\ env_name = NoName
    /\ batch = <<>>
    /\ idx = 1
    /\ success = TRUE
    /\ pub_ret = "none"

\* ------------------------------------------------ the role step, run MaxRuns times
InitRole ==
    /\ FormsIdle
    /\ ProvIdle
    /\ PipeIdle
    /\ r_impl \in RoleImpls
    /\ r_run = 1
    /\ r_pc = "start"
    /\ r_holds \in BOOLEAN
    /\ r_calls = <<>>
    /\ ScreensIdle
    /\ ConfigIdle
    /\ InputIdle

NextRole ==
    \/ R_ExistingList
    \/ R_ExistingCreate
    \/ R_NewCreate
    \/ R_ManagerAssign
    \/ R_Again

SpecRole == InitRole /\ [][NextRole]_vars

\* --------------------------------- the review and setup screens of the TUI
InitScreens ==
    /\ FormsIdle
    /\ ProvIdle
    /\ PipeIdle
    /\ RoleIdle
    /\ screen_stack = <<"review">>
    /\ setup_mounted = FALSE
    /\ keep_installed \in BOOLEAN
    /\ workers = [w \in WorkerIds |-> NotStarted]
    /\ ConfigIdle
    /\ InputIdle

NextScreens ==
    \/ U_PressSetup
    \/ U_PressCancel
    \/ \E w \in WorkerIds : W_Task(w)

SpecScreens == InitScreens /\ [][NextScreens]_vars

\* ------------------------------------------- a ConfigManager on a directory
InitConfig ==
    /\ FormsIdle
    /\ ProvIdle
    /\ PipeIdle
    /\ RoleIdle
    /\ ScreensIdle
    /\ config_file \in InitialConfigFiles
    /\ credentials_file \in InitialCredentialFiles
    /\ config = load(DefaultConfig, config_file)
    /\ credentials = load(DefaultCredentials, credentials_file)
    /\ cm_last = Op("new", "", "")
    /\ InputIdle

NextConfig ==
    \/ CM_UpdateConfig
    \/ CM_UpdateCredentials
    \/ CM_ClearCredentials
    \/ CM_New
    \/ App_update_config

SpecConfig == InitConfig /\ [][NextConfig]_vars

\* ------------------------------------------------ a value entered in a field
InitInput ==
    /\ FormsIdle
    /\ ProvIdle
    /\ PipeIdle
    /\ RoleIdle
    /\ ScreensIdle
    /\ ConfigIdle
    /\ v_field \in {"environment", "vnet_name", "repository_name"}
    /\ v_source \in (IF v_field = "repository_name" THEN {"tui"} ELSE {"tui", "script"})
    /\ v_input \in FieldInputs(v_field)
    /\ v_state = "entered"
    /\ v_value = <<>>

NextInput ==
    \/ V_Continue
    \/ V_Prompt
    \/ V_EnterAgain

SpecInput == InitInput /\ [][NextInput]_vars

\* =================================================================== claims
\* ------------------------- the script's provisioning, from get_user_input on
InitProv ==
    /\ FormsIdle
    /\ PipeIdle
    /\ RoleIdle
    /\ ScreensIdle
    /\ ConfigIdle
    /\ InputIdle
    /\ p_mode \in ProvModes
    /\ p_rotate \in (IF p_mode = "existing" THEN BOOLEAN ELSE {FALSE})
    /\ p_pc = CASE p_mode = "new" -> "new_create"
                [] p_mode = "mi" -> "mi_group"
                [] p_rotate -> "rotate"
                [] OTHER -> "lookup"
    /\ p_calls = <<>>
    /\ p_secret = IF p_mode = "existing" /\ ~p_rotate THEN "typed" ELSE ""
    /\ p_record = "pending"
    /\ p_roles = <<>>
    /\ p_out = "running"

NextProv ==
    \/ P_Rotate
    \/ P_ExistingLookup
    \/ P_ExistingList
    \/ P_ExistingCreate
    \/ P_NewCreate
    \/ P_NewShow
    \/ P_NewRole
    \/ P_MiResourceGroup
    \/ P_MiVerify
    \/ P_MiCreate
    \/ P_MiRole
    \/ P_MiReturn

SpecProvision == InitProv /\ [][NextProv]_vars
\* -------------------------------- the TUI from the GitHub form to the setup
InitForms ==
    /\ PipeIdle
    /\ ProvIdle
    /\ RoleIdle
    /\ InputIdle
    /\ screen_stack = <<"welcome", "github-config">>
    /\ setup_mounted = FALSE
    /\ keep_installed \in BOOLEAN
    /\ workers = [w \in WorkerIds |-> NotStarted]
    /\ config = FormConfig
    /\ credentials = FormCredentials
    /\ config_file = NoFile
    /\ credentials_file = NoFile
    /\ cm_last = Op("new", "", "")
    /\ FormsIdle

NextForms ==
    \/ G_Continue
    \/ A_Continue
    \/ U_PressBack
    \/ U_PressSetup
    \/ U_PressCancel

SpecForms == InitForms /\ [][NextForms]_vars
StepOrder == <<"github_app_setup", "azure_login", "spn_creation", "environment_creation",
               "environment_secrets", "federated_identity">>

StepIndex(st) == CHOOSE i \in 1..Len(StepOrder) : StepOrder[i] = st

Orchestrated == variant \in {"full", "tui"}

\* step k has reported success to the driver
StepOk(k) ==
    IF variant = "tui"
    THEN task_status[setup_tasks[k]] = "success"
    ELSE CASE k = 1 -> results.github_app_setup
           [] k = 2 -> results.azure_login
           [] k = 3 -> results.spn_creation
           [] k = 4 -> results.environment_creation /\ results.environment_name # NoName
           [] k = 5 -> results.environment_secrets
           [] OTHER -> results.federated_identity

\* an external call of step k has been made
StepCalled(k) ==
    \/ \E i \in 1..Len(calls) : calls[i].step = StepOrder[k]
    \/ k = 4 /\ (polls > 0 \/ wait_ret.kind # "pending")

RunFailed == outcome \in {"returned_false", "error_shown"}

\* C1: in run_full_setup and run_setup the external calls follow the fixed step
\* order, a call of a step is made only when every earlier step has reported
\* success (the environment is polled only after a 204 dispatch), nothing is
\* called once the run has ended, and a run that ends in failure reports a
\* prefix of successful steps, the failed step, and nothing attempted after it.
C1_GatedOrder ==
    /\ [](Orchestrated =>
            /\ \A i, j \in 1..Len(calls) :
                 i < j => StepIndex(calls[i].step) <= StepIndex(calls[j].step)
            /\ \A k \in 2..Len(StepOrder) : StepCalled(k) => \A j \in 1..(k - 1) : StepOk(j)
            /\ (polls > 0 =>
                  \E i \in 1..Len(calls) :
                     calls[i].op = "dispatch" /\ calls[i].status = HttpNoContent)
            /\ (RunFailed =>
                  \E k \in 1..Len(StepOrder) :
                     /\ StepCalled(k)
                     /\ ~StepOk(k)
                     /\ \A j \in 1..(k - 1) : StepOk(j)
                     /\ \A j \in (k + 1)..Len(StepOrder) : ~StepCalled(j) /\ ~StepOk(j)
                     /\ (variant = "tui" =>
                           /\ task_status[setup_tasks[k]] = "error"
                           /\ \A j \in (k + 1)..Len(StepOrder) :
                                task_status[setup_tasks[j]] = "pending"))
            /\ (variant = "tui" =>
                  ((\E t \in SetupTasks : task_status[t] = "error") => outcome = "error_shown")))
    /\ [][Orchestrated /\ outcome # "running" => calls' = calls /\ polls' = polls]_vars

C1_Witness ==
    /\ variant = "full"
    /\ outcome = "returned_false"
    /\ results.azure_login
    /\ ~results.spn_creation
    /\ \E i \in 1..Len(calls) : calls[i].op = "create_for_rbac"

\* C2: every change of a task's status is pending -> running, running ->
\* success or running -> error, and no status changes while some task is in error.
C2_TaskStatusMoves ==
    [][\A t \in SetupTasks :
          task_status'[t] # task_status[t] =>
             /\ \/ task_status[t] = "pending" /\ task_status'[t] = "running"
                \/ task_status[t] = "running" /\ task_status'[t] \in {"success", "error"}
             /\ \A u \in SetupTasks : task_status[u] # "error"]_vars

C2_Witness ==
    /\ variant = "tui"
    /\ task_status["setup_github_app"] = "success"
    /\ task_status["login_azure"] = "success"
    /\ task_status["create_service_principal"] = "error"
    /\ task_status["create_environment"] = "pending"

\* the federation step was attempted and reported failure, the run has ended
FederationFailed ==
    /\ Orchestrated
    /\ pc = "done"
    /\ StepOk(3)
    /\ StepCalled(6)
    /\ ~StepOk(6)

\* C3 as stated: with spn_creation successful and federation failing, no later
\* step (environment_creation, environment_secrets) is attempted.
C3_Original == FederationFailed => ~StepCalled(4) /\ ~StepCalled(5)

\* C3 amended: with spn_creation successful and federation failing, the
\* environment creation and environment secrets steps have both been attempted
\* and have succeeded before it, federated_identity is the only step in error
\* and the last one, and the run reports failure.
C3_FederationLast ==
    FederationFailed =>
       /\ \A k \in 1..5 : StepCalled(k) /\ StepOk(k)
       /\ calls[Len(calls)].step = "federated_identity"
       /\ RunFailed
       /\ (variant = "tui" => task_status["configure_federated_identity"] = "error")

C3_Witness ==
    /\ FederationFailed
    /\ variant = "full"
    /\ calls[Len(calls)].op = "federated_credential_create"

IsFederationCall(c) == c.op = "federated_credential_create"

IsEnvSecretCall(c) ==
    c.step = "environment_secrets" /\ c.op \in {"get_environment", "create_env_secret"}

\* C4: a federated-credential call is issued only when the environment name is
\* known (returned by the wait; in the script entered after the dispatch) and
\* after the environment secrets step has been attempted, and it carries the
\* name that the environment secrets step was given.
C4_FederationAfterName ==
    \A i \in 1..Len(calls) :
       IsFederationCall(calls[i]) =>
          /\ calls[i].env = env_name
          /\ (Orchestrated => wait_ret.kind = "name" /\ calls[i].env = wait_ret.name)
          /\ (variant = "script" => \E j \in 1..(i - 1) : calls[j].op = "dispatch")
          /\ \E j \in 1..(i - 1) : calls[j].step = "environment_secrets"
          /\ \A j \in 1..Len(calls) :
                IsEnvSecretCall(calls[j]) => j < i /\ calls[j].env = calls[i].env

C4_Witness ==
    /\ variant = "full"
    /\ environment = <<"M", "G">>
    /\ wait_ret = WaitName(EnvMG1)
    /\ \E i \in 1..Len(calls) : IsFederationCall(calls[i]) /\ calls[i].env = EnvMG1

InWait == pc \in {"wait_poll", "wait_sleep", "after_wait"}

\* C5: in the wait loop elapsed is the number of sleeps times the interval, a
\* poll happens only while elapsed < timeout, and a wait that returns None has
\* polled exactly ceil(timeout / check_interval) times, slept after each poll
\* and accumulated elapsed >= timeout.
C5_TimeoutPolls ==
    /\ [](InWait =>
            /\ elapsed = sleeps * check_interval
            /\ polls <= CeilDiv(timeout, check_interval)
            /\ (pc = "after_wait" /\ wait_ret.kind = "none" =>
                  /\ polls = CeilDiv(timeout, check_interval)
                  /\ sleeps = polls
                  /\ elapsed >= timeout))
    /\ [][elapsed >= timeout => polls' <= polls]_vars

C5_Witness ==
    /\ variant = "wait"
    /\ timeout = 30
    /\ check_interval = 10
    /\ pc = "after_wait"
    /\ wait_ret.kind = "none"
    /\ polls = 3

\* the wait ran after a successful dispatch and returned None; the run has ended
TimedOut ==
    /\ Orchestrated
    /\ pc = "done"
    /\ wait_ret.kind = "none"

\* the environment-creation step is reported as failed
EnvironmentCreationReportedFailed ==
    IF variant = "tui"
    THEN task_status["create_environment"] = "error"
    ELSE ~results.environment_creation

\* C6: after a successful dispatch and a wait that timed out, the run reports
\* the environment-creation step as failed, reports overall failure, and has
\* attempted neither the environment secrets nor the federation step.
C6_TimeoutReported ==
    TimedOut =>
       /\ EnvironmentCreationReportedFailed
       /\ RunFailed
       /\ ~StepCalled(5)
       /\ ~StepCalled(6)

\* C7: a returned name is an element of the listing of the poll that returned,
\* it starts with the prefix and no element before it does; the wait returns
\* at that poll: every earlier poll was followed by exactly one sleep.
C7_FirstMatchReturned ==
    pc = "after_wait" /\ wait_ret.kind = "name" =>
       /\ \E i \in 1..Len(environments) :
             /\ environments[i] = wait_ret.name
             /\ StartsWith(environments[i], environment)
             /\ \A j \in 1..(i - 1) : ~StartsWith(environments[j], environment)
       /\ sleeps = polls - 1
       /\ elapsed = sleeps * check_interval
       /\ elapsed < timeout

C7_Witness ==
    /\ pc = "after_wait"
    /\ environment = <<"M", "G">>
    /\ environments = <<EnvDV, EnvMG1>>
    /\ wait_ret = WaitName(EnvMG1)
    /\ polls = 1
    /\ sleeps = 0

\* the calls of the publisher that is running or has just returned
RECURSIVE SelectCalls(_, _, _)
SelectCalls(log, st, ops) ==
    IF log = <<>> THEN <<>>
    ELSE IF Head(log).step = st /\ Head(log).op \in ops
         THEN <<Head(log)>> \o SelectCalls(Tail(log), st, ops)
         ELSE SelectCalls(Tail(log), st, ops)

KeyOps == {"create_secret", "create_env_secret", "create_env_variable"}
ResolveOps == {"get_repo", "get_environment"}

KeyCalls == SelectCalls(calls, step, KeyOps)
ResolveCalls == SelectCalls(calls, step, ResolveOps)

Unresolved == \E i \in 1..Len(ResolveCalls) : ResolveCalls[i].res # "ok"

GmReturned == Orchestrated /\ pc = "after_pub"

\* C8: when add_repository_secrets / add_environment_secrets has entered its
\* loop, a rejected key does not end the loop: unless a call raised an error
\* that is not a GitHub rejection, every key of the batch has been attempted
\* once, in order; the result is failure iff some key was not accepted; and
\* the log of accepted writes only grows.
C8_RejectedKeyIsolated ==
    /\ [](GmReturned /\ ~Unresolved =>
            /\ \A i \in 1..Len(KeyCalls) :
                 /\ i <= Len(batch)
                 /\ KeyCalls[i].key = batch[i].name
                 /\ (KeyCalls[i].res = "raise" => i = Len(KeyCalls))
            /\ ((\A i \in 1..Len(KeyCalls) : KeyCalls[i].res # "raise")
                   => Len(KeyCalls) = Len(batch))
            /\ (pub_ret = "false" <=> \E i \in 1..Len(KeyCalls) : KeyCalls[i].res # "ok"))
    /\ [][Len(calls') >= Len(calls) /\ SubSeq(calls', 1, Len(calls)) = calls]_vars

C8_Witness ==
    /\ GmReturned
    /\ step = "environment_secrets"
    /\ Len(KeyCalls) = 7
    /\ KeyCalls[2].res = "rejected"
    /\ \A i \in {1, 3, 4, 5, 6, 7} : KeyCalls[i].res = "ok"
    /\ pub_ret = "false"

\* C9: when get_repo or get_environment of an environment-scoped publisher
\* fails, no secret or variable of the batch is attempted and the call fails:
\* GitHubManager returns False, the script's publisher raises.
C9_UnresolvedAborts ==
    step \in {"environment_secrets", "environment_variables"} /\ Unresolved =>
       /\ KeyCalls = <<>>
       /\ (Orchestrated => pc \in {"after_pub", "done"} /\ pub_ret = "false")
       /\ (variant = "script" => outcome = "raised")

C9_Witness ==
    /\ variant = "full"
    /\ step = "environment_secrets"
    /\ Len(ResolveCalls) = 2
    /\ ResolveCalls[2].op = "get_environment"
    /\ ResolveCalls[2].res = "rejected"
    /\ pub_ret = "false"

DispatchFailed(c) == c.op = "dispatch" /\ (c.res = "raise" \/ c.status # HttpNoContent)

\* C10: after a dispatch whose request raised or whose status is not 204, the
\* pipeline neither polls for the environment nor publishes environment
\* variables / secrets nor configures federation.
C10_DispatchGates ==
    \A i \in 1..Len(calls) :
       DispatchFailed(calls[i]) =>
          /\ i = Len(calls)
          /\ polls = 0
          /\ wait_ret.kind = "pending"
\* the role-assignment create calls of run n
RECURSIVE CreatesOf(_, _)
CreatesOf(log, n) ==
    IF log = <<>> THEN 0
    ELSE (IF Head(log).op = "role_assignment_create" /\ Head(log).run = n THEN 1 ELSE 0)
         + CreatesOf(Tail(log), n)

\* C11: a role-assignment create call is issued only right after a
\* role-assignment list query of the same run that succeeded and showed no
\* assignment; so no create call is issued against a principal that holds the
\* role, a run issues at most one create call, and a run that follows a
\* successful create issues none.
C11_RoleStepIdempotent ==
    /\ \A i \in 1..Len(r_calls) :
          r_calls[i].op = "role_assignment_create" =>
             /\ i > 1
             /\ r_calls[i - 1].op = "role_assignment_list"
             /\ r_calls[i - 1].run = r_calls[i].run
             /\ r_calls[i - 1].res = "ok"
             /\ ~r_calls[i].held
    /\ \A n \in 1..MaxRuns : CreatesOf(r_calls, n) <= 1
\* the external calls that change state in GitHub or Azure
StateChangingOps == {"create_secret", "create_for_rbac", "role_assignment_create", "dispatch",
                     "create_env_secret", "create_env_variable",
                     "federated_credential_create", "provision"}

\* every external call the drivers make; none deletes or undoes anything
KnownOps == StateChangingOps \cup {"get_repo", "get_environment", "account_show", "login", "sp_show",
                                    "version"}

\* C12: within one run a state-changing external call (a given secret or
\* variable key, service-principal creation, role assignment, dispatch,
\* federated credential) is issued at most once, every call is one of the
\* known read or create operations (no delete, no undo), and the call log only
\* grows: what earlier steps did stays in place when a later step fails.
C12_NoRetryNoRollback ==
    /\ [](/\ \A i, j \in 1..Len(calls) :
               /\ calls[i].op \in StateChangingOps
               /\ calls[i].op = calls[j].op
               /\ calls[i].key = calls[j].key
               => i = j
          /\ \A i \in 1..Len(calls) : calls[i].op \in KnownOps)
    /\ [][\A i \in 1..Len(calls) : i <= Len(calls') /\ calls'[i] = calls[i]]_vars

C12_Witness ==
    /\ variant = "full"
    /\ outcome = "returned_false"
    /\ results.spn_creation
    /\ ~results.environment_creation
    /\ \E i \in 1..Len(calls) : calls[i].op = "create_secret" /\ calls[i].res = "ok"
    /\ \E i \in 1..Len(calls) : calls[i].op = "create_for_rbac" /\ calls[i].res = "ok"
    /\ \E i \in 1..Len(calls) : calls[i].op = "role_assignment_create" /\ calls[i].res = "ok"
    /\ calls[Len(calls)].op = "dispatch"
\* a call that reported an authenticated az session at the login point
LoginOk(c) ==
    /\ c.step \in {"azure_login", "prerequisites"}
    /\ c.op \in {"account_show", "login"}
    /\ c.res = "ok"

\* the steps behind the login point: provisioning and everything after it
BehindLogin == {"spn_creation", "environment_creation", "environment_variables",
                "environment_secrets", "federated_identity"}

\* C13: a call of identity provisioning or of a later step is made only after
\* the login check, or the login attempted after a failed check, reported
\* success; without it the run ends at the login point.
C13_LoginGate ==
    \A i \in 1..Len(calls) :
       calls[i].step \in BehindLogin => \E j \in 1..(i - 1) : LoginOk(calls[j])

\* C14: when az is not on the PATH the run ends without any state-changing
\* external call: no secret written, nothing dispatched, nothing provisioned.
C14_AzMissingAborts ==
    ~az_present =>
       /\ \A i \in 1..Len(calls) : calls[i].op \notin StateChangingOps
       /\ pc = "done" => outcome \in {"exited", "returned_false", "error_shown"}
\* C15: run_full_setup and run_setup always end by returning: no exception
\* escapes them whatever an external call answered, a run that did not complete
\* has reported its failing step, and no task is left in running.
C15_FailuresRecovered ==
    Orchestrated /\ pc = "done" =>
       /\ outcome \in {"returned_true", "returned_false", "error_shown", "completed"}
       /\ (variant = "tui" => \A t \in SetupTasks : task_status[t] # "running")
\* C16: a wait that returns None, which the drivers report as 'timed out',
\* has seen every one of its environment listings answered successfully; a
\* listing answered with an error does not end up reported as a timeout.
C16_TimeoutIsNotCallFailure ==
    pc = "after_wait" /\ wait_ret.kind = "none" => ~list_failed
C18_PersistedFollowsMemory ==
    /\ load(DefaultConfig, config_file) = config
    /\ load(DefaultCredentials, credentials_file) = credentials
    /\ (config_file = NoFile => config = DefaultConfig)
    /\ (credentials_file = NoFile => credentials = DefaultCredentials)
\* the value the length test of the boundary looks at
Checked == IF v_source = "script" THEN strip(v_input) ELSE v_input

CodeLimit == IF v_field = "environment" THEN EnvironmentMaxLength ELSE VnetMaxLength

\* C19: for the environment code (limit 5) and the VNet name (limit 7), in the
\* TUI validators and in the script's prompt loops alike: a value longer than
\* the limit is rejected, and a value handed on has been accepted and is not
\* longer than the limit.
C19_LengthCaps ==
    /\ [](v_field \in {"environment", "vnet_name"} =>
            /\ (v_state # "entered" /\ Len(Checked) > CodeLimit => v_state = "rejected")
            /\ (v_state = "accepted" => v_value = Checked)
            /\ Len(v_value) <= CodeLimit)
    /\ [][(v_field \in {"environment", "vnet_name"} /\ v_value' # v_value)
            => (v_state' = "accepted" /\ Len(v_value') <= CodeLimit)]_vars

C19_Witness ==
    /\ v_field = "environment"
    /\ v_source = "tui"
    /\ Len(v_input) = EnvironmentMaxLength + 1
    /\ isalnum(v_input)
    /\ v_state = "rejected"

\* a repository name of the form owner/repo: two non-empty segments of
\* characters of [A-Za-z0-9_.-] around a single slash
WellFormedRepo(v) ==
    /\ Cardinality({i \in 1..Len(v) : v[i] = "/"}) = 1
    /\ \A i \in 1..Len(v) : v[i] \in RepoChars \cup {"/"}
    /\ v[1] # "/"
    /\ v[Len(v)] # "/"

\* C20: validate_repo_name accepts a string exactly when it is of the form
\* owner/repo; the empty string, a string without slash, with an empty
\* segment or with more than one slash is rejected.
C20_RepoNameExact ==
    v_field = "repository_name" /\ v_state # "entered" =>
       (v_state = "accepted" <=> v_input # <<>> /\ WellFormedRepo(v_input))

\* the six step results of run_full_setup's dictionary, in pipeline order
StepResults(r) ==
    <<r.github_app_setup, r.azure_login, r.spn_creation, r.environment_creation,
      r.environment_secrets, r.federated_identity>>

Returned_full == variant = "full" /\ outcome \in {"returned_true", "returned_false"}

\* C29: in the tuple run_full_setup returns, the flag is True exactly when all
\* six step results are True and environment_name is not empty; a False step
\* result is followed only by False step results; and environment_name is not
\* empty only when environment_creation is True.
C29_ResultTuple ==
    Returned_full =>
        LET sr == StepResults(results)
        IN /\ (outcome = "returned_true")
                <=> ((\A k \in 1..6 : sr[k]) /\ results.environment_name # NoName)
           /\ \A j, k \in 1..6 : (j < k /\ ~sr[j]) => ~sr[k]
           /\ (results.environment_name # NoName => results.environment_creation)
\* the tuple of a run that stopped at the publication of the environment secrets
C29_Witness ==
    /\ Returned_full
    /\ outcome = "returned_false"
    /\ results.environment_name # NoName
    /\ ~results.environment_secrets

TasksIn(status) == {k \in 1..Len(setup_tasks) : task_status[setup_tasks[k]] = status}

\* the statuses are n times success, then nothing more or one error and pending
EndShape(n) ==
    /\ \A k \in 1..n : task_status[setup_tasks[k]] = "success"
    /\ \/ n = Len(setup_tasks) /\ outcome = "completed"
       \/ /\ n < Len(setup_tasks)
          /\ outcome = "error_shown"
          /\ task_status[setup_tasks[n + 1]] = "error"
          /\ \A k \in (n + 2)..Len(setup_tasks) : task_status[setup_tasks[k]] = "pending"

\* C30: during run_setup at most one task is running and at most one is in
\* error; when run_setup has ended the statuses are, in pipeline order, a run
\* of success and then either nothing (completion shown) or one error followed
\* by pending only (error shown), so no task is left running.
C30_TaskStatusShape ==
    variant = "tui" =>
        /\ Cardinality(TasksIn("running")) <= 1
        /\ Cardinality(TasksIn("error")) <= 1
        /\ (pc = "done" => \E n \in 0..Len(setup_tasks) : EndShape(n))

EnvWriteOps == {"create_env_secret", "create_env_variable"}

\* the step appends a write of an environment secret or variable to the log
EnvWriteIssued ==
    /\ Len(calls') = Len(calls) + 1
    /\ calls'[Len(calls')].op \in EnvWriteOps

\* an environment publisher has gone through its whole batch
EnvBatchDone ==
    /\ pc = "after_pub"
    /\ step \in {"environment_variables", "environment_secrets"}
    /\ idx > Len(batch)

Written(i) ==
    \E j \in 1..Len(calls) :
        /\ calls[j].op \in EnvWriteOps
        /\ calls[j].step = step
        /\ calls[j].key = batch[i].name

\* C26: no environment secret or variable is written with an empty value, in
\* the script's publishers and in GitHubManager.add_environment_secrets alike:
\* the pair being published when a write is issued has a value, and a batch
\* that was gone through has a write for each of its pairs that has a value.
C26_NoEmptyWrites ==
    /\ [][EnvWriteIssued => ~SkipValue(batch[idx].value)]_vars
    /\ [](EnvBatchDone =>
            \A i \in 1..Len(batch) : ~SkipValue(batch[i].value) => Written(i))

ProvOps(ops) == SelectSeq(p_calls, LAMBDA c : c.op \in ops)

HardFailure(c) == c.res \in {"nonzero", "badjson"}

\* C22: when a new service principal is provisioned, a non-zero exit or an
\* undecodable output of the create-for-rbac call, of the object-ID lookup or
\* of the User Access Administrator role assignment makes provisioning fail:
\* no record is handed on and main does not go on to the secrets.
C22_SubCallsAreHard ==
    LET sub == ProvOps({"create_for_rbac", "sp_show", "role_assignment_create"})
    IN (p_mode = "new" /\ \E i \in 1..Len(sub) : HardFailure(sub[i]))
         => (p_record # "record" /\ p_out # "continues")

DecodedOps == {"create_for_rbac", "sp_show", "role_assignment_list",
               "app_credential_reset", "sp_credential_reset", "identity_create"}

\* C23: output that cannot be decoded, from a call that exited with 0, is
\* handled as a non-zero exit of the call: wherever the script decodes CLI
\* output (service-principal creation, object-ID lookup, role-assignment list,
\* credential reset, identity creation) the operation fails and the run stops.
C23_DecodeFailureIsFailure ==
    LET dec == ProvOps(DecodedOps)
    IN (\E i \in 1..Len(dec) : dec[i].res = "badjson")
         => (p_out = "exited" /\ p_record # "record")

RoleCalls == ProvOps({"role_assignment_create"})

IdentityCreated ==
    \E i \in 1..Len(p_calls) : p_calls[i].op = "identity_create" /\ p_calls[i].res = "ok"

\* the roles whose assignment exited with 0, in list order
RECURSIVE AssignedAmong(_)
AssignedAmong(cs) ==
    IF cs = <<>> THEN <<>>
    ELSE LET rest == AssignedAmong(SubSeq(cs, 1, Len(cs) - 1))
         IN IF cs[Len(cs)].res = "ok" THEN Append(rest, roles[Len(cs)]) ELSE rest

\* C24: with a managed identity, once the identity was created the five role
\* assignments are all attempted, in list order, whatever the earlier ones
\* gave; the step then hands on a record that lists exactly the roles whose
\* assignment succeeded, and does not fail.
C24_RolesBestEffort ==
    (p_mode = "mi" /\ IdentityCreated) =>
        /\ Len(RoleCalls) <= Len(roles)
        /\ p_roles = AssignedAmong(RoleCalls)
        /\ (p_out # "running" =>
              /\ Len(RoleCalls) = Len(roles)
              /\ p_record = "record"
              /\ p_out = "continues")

AppReset == ProvOps({"app_credential_reset"})
SpReset == ProvOps({"sp_credential_reset"})

RotationDone == p_rotate /\ p_pc # "rotate"

\* C25: when the secret of an existing principal is rotated, the reset at the
\* principal level is attempted exactly when the reset at the app level exited
\* non-zero; the secret is the one of the reset that succeeded; and when both
\* fail the run ends there, with no later az call and nothing handed on.
C25_RotationFallback ==
    RotationDone =>
        /\ Len(AppReset) = 1
        /\ (Len(SpReset) = 1 <=> AppReset[1].res = "nonzero")
        /\ Len(SpReset) <= 1
        /\ (p_secret = "app" <=> AppReset[1].res = "ok")
        /\ (p_secret = "sp" <=> (AppReset[1].res = "nonzero" /\ SpReset[1].res = "ok"))
        /\ (p_secret = "" =>
              /\ p_out \in {"exited", "raised"}
              /\ p_record = "pending"
              /\ p_calls = AppReset \o SpReset)
\* both resets exited non-zero
C25_Witness ==
    /\ RotationDone
    /\ Len(SpReset) = 1
    /\ AppReset[1].res = "nonzero"
    /\ SpReset[1].res = "nonzero"
    /\ p_out = "exited"

\* C27: clear_credentials sets every credential to the empty string, keeps the
\* keys of the credentials mapping, and leaves the configuration mapping and
\* the configuration document on disk as they were.
C27_ClearCredentialsFrame ==
    [][cm_last'.op = "clear_credentials" =>
         /\ DOMAIN credentials' = DOMAIN credentials
         /\ \A k \in DOMAIN credentials' : credentials'[k] = ""
         /\ config' = config
         /\ config_file' = config_file]_vars
\* credentials cleared that held a key beyond the defaults, beside a
\* configuration that was changed and saved
C27_Witness ==
    /\ cm_last.op = "clear_credentials"
    /\ "note" \in DOMAIN credentials
    /\ config # DefaultConfig
    /\ config_file = Document(config)

\* C28: a value stored through SAPAzureAutomatorApp.update_config({k: v}) is
\* the value get_combined_config() returns for k.
C28_ReadAfterWrite ==
    cm_last.op = "app_update_config" =>
        get_combined_data(config, credentials)[cm_last.key] = cm_last.value

\* run_setup has been started: the setup screen is shown and a worker runs
SetupStarted == Top(screen_stack) = "setup" /\ \E w \in WorkerIds : Running(w)

\* config = self.app.get_combined_config() of run_setup
Handed == get_combined_data(config, credentials)

\* the Configuration invariant
ConfigurationInvariant(c) ==
    /\ c["repository_name"] # <<>>
    /\ WellFormedRepo(c["repository_name"])
    /\ Len(c["environment"]) <= EnvironmentMaxLength
    /\ Len(c["vnet_name"]) <= VnetMaxLength
    /\ GuidMatch(c["subscription_id"])
    /\ GuidMatch(c["tenant_id"])

\* C21: when run_setup is started from the TUI the configuration it reads
\* satisfies the Configuration invariant (repository_name of the form
\* owner/repo, environment of at most 5 and vnet_name of at most 7 characters,
\* subscription_id and tenant_id of GUID shape), and its values are the ones
\* that passed validation on the forms.
C21_ValidatedConfigHanded ==
    SetupStarted =>
        /\ ConfigurationInvariant(Handed)
        /\ \A k \in DOMAIN f_validated : Handed[k] = f_validated[k]

====
